---- MODULE Spec2Model ----
(***************************************************************************)
(* Model of the AIR payload's sample pipeline (src/pi/processes).          *)
(*                                                                         *)
(* SampleUpwards.run() is modelled statement block by statement block.    *)
(* Every blocking wait of the code is a spin loop whose body is one call  *)
(* of LogPressures.run(); one iteration of such a loop is one step of the *)
(* model.  Sensor readings (pressures, temperatures) and the amount of    *)
(* mission time that passes during one poll are inputs chosen by the      *)
(* environment.                                                            *)
(*                                                                         *)
(* LogPressures, SwapTanks and InitialPressureCheck are each a process     *)
(* with a run() of its own; each has its own specification below (LPSpec,  *)
(* SwapSpec, CheckSpec) over the same program state.                       *)
(***************************************************************************)
EXTENDS Integers, FiniteSets, Sequences, TLC

(***************************************************************************)
(* Bounds of the model                                                     *)
(***************************************************************************)
\* number of collections (each bound to its own tank)
NumCollections == 2
\* number of tank pressure/temperature sensors LogPressures reads
NumTempSensors == 1
\* mission time that passes during one poll of a wait loop (ms)
Tick == 50
\* number of tanks (and of collections) InitialPressureCheck and SwapTanks are given
NumTanks == 3

(***************************************************************************)
(* Program constants                                                       *)
(***************************************************************************)
t_small == 100
delta_pressure_threshold == 50
T_ANYTIME == 470
T_SAMPLE == 400
time_btw_temp_checks == 15
SENTINEL == -1

TankState == {"UNKNOWN", "UNSAFE", "CRITICAL", "UNREACHABLE", "LAST_RESORT",
              "READY", "FAILED_SAMPLE", "SAMPLED"}
PlumbingState == {"READY", "MAIN_LINE_FAILURE"}

(***************************************************************************)
(* Mission parameters and environment inputs                               *)
(***************************************************************************)
Collections == 1..NumCollections

\* Collection fields (static mission parameters)
up_start_time == [c \in Collections |-> 100 * c]
bleed_duration == [c \in Collections |-> 50]
up_duration == [c \in Collections |-> 50]
up_final_stagnation_pressure == [c \in Collections |-> 1000]

\* values a tank's triple_pressure may return (hPa; -1 is the sentinel)
TankPressures == {SENTINEL, 100, 120, 200, 950}
\* values the manifold sensor's triple_pressure may return
ManifoldPressures == {SENTINEL, 800, 880}
\* values a temperature read may return (Kelvin)
Temperatures == {110, 400, 470}

\* states a tank may be in when SampleUpwards starts
InitialTankStates == TankState \ {"FAILED_SAMPLE", "SAMPLED"}

TempSensors == 1..NumTempSensors
\* values the DPV thermocouple may return (Kelvin)
DpvTemperatures == {350, 470}

\* the shared line valves held by the process; every tank owns one more valve
ValveNames == {"dynamic", "static", "main"}

Abs(x) == IF x < 0 THEN -x ELSE x

VARIABLES
  pc,                           \* position of SampleUpwards.run()
  result,                       \* return value of run(): "none" until it returns
  ci,                           \* index of the collection the for loop is at
  now,                          \* mission time T+ in ms (Process.rtc.getTPlusMS())
  tank_state,                   \* Tank.state of each collection's tank
  sampled_count,                \* Collection.sampled_count
  plumbing_state,               \* Process.plumbing_state
  temp_thresh_reached,          \* LogPressures._temp_thresh_reached
  currently_sampling,           \* LogPressures._currently_sampling
  time_last_sampled,            \* LogPressures._time_last_sampled
  valve,                        \* last commanded level of the dynamic, static and main valve
  tank_valve,                   \* last commanded level of each tank's valve
  loop_start_time,              \* bleed_start_time / sample_start_time / t_small_start_time
  pre_sample_tank_pressure,
  pre_sample_manifold_pressure,
  post_sample_tank_pressure,
  post_sample_manifold_pressure,
  pre_t_small_tank_pressure,
  post_t_small_tank_pressure,
  opened,                       \* history: valves opened while each collection was handled
  probes,                       \* history: number of t_small probes per collection
  log,                          \* history: decisions written to the event log per collection
  lp_reads,                     \* history: what the last LogPressures.execute() read
  ti,                           \* index of the tank / collection a mission-start loop is at
  tanks,                        \* Tank.state of each tank of self.tanks (mission start)
  tank_pressure,                \* the triple_pressure InitialPressureCheck classified each tank by
  key_pressure,                 \* the triple_pressure read as min() / sort() key of each tank
  ref_manifold_pressure,
  new_manifold_pressure,
  manifold_presence,            \* the manifold triple_pressure read to see if the sensor answers
  ready_tanks,                  \* SwapTanks.execute: ready_tanks (aliases self.tanks)
  last_resort_tanks,
  not_ready_tanks,
  assigned,                     \* Collection.tank after associate_tank (0: none yet)
  time_ms,                      \* round(time.time()*1000) of the system clock
  rtc,                          \* the attributes of the RTC object (Process.rtc)
  rtc_call,                     \* the last call made on the RTC and what it returned
  gswitch_armed,                \* the G-switch event detection is still registered
  event_log,                    \* what gswitch_callback has written to the output log
  t_plus_seen,                  \* history: last getTPlusMS() value since the last correction
  last_est,                     \* history: argument of the last setEstT0() call
  data,                         \* MPRLSFile.data: the recorded readings
  index,                        \* MPRLSFile.index: position of the next reading (from 0)
  sensor_call,                  \* the last read of a pressure sensor and what it returned
  temp_history,                 \* VentHotAir.temp_history: (temperature, timestamp) pairs
  vent_exit,                    \* history: how the vent loop was left ("none" while it runs)
  vent_read,                    \* history: what the thermocouple gave at the poll that met the target
  config,                       \* the process whose run() is called and the collaborator left unset
  run_log                       \* what that run() has logged or warned

vars == <<pc, result, ci, now, tank_state, sampled_count, plumbing_state,
          temp_thresh_reached, currently_sampling, time_last_sampled, valve,
          tank_valve, loop_start_time, pre_sample_tank_pressure, pre_sample_manifold_pressure,
          post_sample_tank_pressure, post_sample_manifold_pressure,
          pre_t_small_tank_pressure, post_t_small_tank_pressure,
          opened, probes, log, lp_reads, ti, tanks, tank_pressure, key_pressure,
          ref_manifold_pressure, new_manifold_pressure, manifold_presence, ready_tanks,
          last_resort_tanks, not_ready_tanks, assigned,
          time_ms, rtc, rtc_call, gswitch_armed, event_log, t_plus_seen, last_est,
          data, index, sensor_call, temp_history, vent_exit, vent_read,
          config, run_log>>

\* state of the mission clock and of the G-switch callback
rtcVars == <<time_ms, rtc, rtc_call, gswitch_armed, event_log, t_plus_seen, last_est>>

\* state of the file-backed pressure sensor
fileVars == <<data, index, sensor_call>>

\* state of VentHotAir, which runs after the sample pipeline
ventVars == <<temp_history, vent_exit, vent_read>>

\* the configuration a run() is called with, complete in every run of the pipeline
cfgVars == <<config, run_log>>

\* state of the units below the processes and of the vent, which the sample
\* pipeline does not change
unitVars == <<rtcVars, fileVars, ventVars, cfgVars>>

\* state of LogPressures' bookkeeping and of the mission-start processes
\* (InitialPressureCheck, SwapTanks), which have returned when SampleUpwards runs
stageVars == <<lp_reads, ti, tanks, tank_pressure, key_pressure, ref_manifold_pressure,
               new_manifold_pressure, manifold_presence, ready_tanks, last_resort_tanks, not_ready_tanks,
               assigned, unitVars>>

locals == <<loop_start_time, pre_sample_tank_pressure, pre_sample_manifold_pressure,
            post_sample_tank_pressure, post_sample_manifold_pressure,
            pre_t_small_tank_pressure, post_t_small_tank_pressure>>

\* value of a local that has not been assigned
NONE == SENTINEL - 1

\* the tanks InitialPressureCheck and SwapTanks are given
Tanks == 1..NumTanks

\* LogPressures.execute has read nothing
NoReads == [reads |-> {}, sampling |-> FALSE, dpv |-> NONE, dpv_triple |-> NONE,
            temps |-> [s \in TempSensors |-> NONE],
            temps_triple |-> [s \in TempSensors |-> NONE]]

\* system time at which the RTC object is constructed (ms)
Boot == 1000000
\* default of the parameter activated_at_T_plus_ms
activated_at_T_plus_ms == -180000

\* RTCWrappedSensor.__init__: ds3231_ok is whether the DS3231 could be read, elapsed
\* is ((tm_min * 60) + tm_sec) * 1000 of its time.  When the read raises, the
\* attribute t0 is never assigned.
RTCWrappedSensor_init(ds3231_ok, elapsed) ==
  IF ds3231_ok
    THEN [class |-> "RTCWrappedSensor", ready |-> TRUE, ref |-> Boot,
          t0 |-> Boot - elapsed - activated_at_T_plus_ms]
    ELSE [class |-> "RTCWrappedSensor", ready |-> FALSE, ref |-> Boot]

\* RTCFile.__init__
RTCFile_init(start_time_ms) ==
  [class |-> "RTCFile", ready |-> TRUE, ref |-> start_time_ms, t0 |-> start_time_ms]

\* no call has been made yet
NoCall == [op |-> "none"]

\* the mission clock has just been constructed and the G-switch has not fired
RTCIdle ==
  /\ time_ms = Boot
  /\ rtc_call = NoCall
  /\ gswitch_armed = TRUE
  /\ event_log = <<>>
  /\ t_plus_seen = {}
  /\ last_est = {}

\* no pressure sensor of its own is under study: an MPRLSFile without data
FileIdle ==
  /\ data = <<>>
  /\ index = 0
  /\ sensor_call = NoCall

\* no poll has met the target
NoRead == [temperature |-> NONE, triple_temperature |-> NONE]

\* VentHotAir.__init__
VentIdle ==
  /\ temp_history = <<>>
  /\ vent_exit = "none"
  /\ vent_read = NoRead

\* every collaborator of every process is set
Complete == [process |-> "none", unset |-> "none"]

\* no run() with a collaborator left unset is under study
ConfigIdle ==
  /\ config = Complete
  /\ run_log = {}

\* the units as the processes find them
UnitsIdle ==
  /\ rtc = RTCFile_init(Boot)
  /\ RTCIdle
  /\ FileIdle
  /\ VentIdle
  /\ ConfigIdle

\* nothing of the mission-start processes is in progress
StageIdle ==
  /\ lp_reads = NoReads
  /\ ti = 1
  /\ tanks = [t \in Tanks |-> "UNKNOWN"]
  /\ tank_pressure = [t \in Tanks |-> NONE]
  /\ key_pressure = [t \in Tanks |-> NONE]
  /\ ref_manifold_pressure = NONE
  /\ new_manifold_pressure = NONE
  /\ manifold_presence = NONE
  /\ ready_tanks = <<>>
  /\ last_resort_tanks = <<>>
  /\ not_ready_tanks = <<>>
  /\ assigned = [c \in Tanks |-> 0]

Init ==
  /\ pc = "start"
  /\ result = "none"
  /\ ci = 1
  /\ now = 0
  /\ tank_state \in [Collections -> InitialTankStates]
  /\ sampled_count = [c \in Collections |-> 0]
  /\ plumbing_state \in PlumbingState
  /\ temp_thresh_reached \in BOOLEAN
  /\ currently_sampling = FALSE
  /\ time_last_sampled = 0
  /\ valve = [v \in ValveNames |-> "CLOSED"]
  /\ tank_valve = [c \in Collections |-> "CLOSED"]
  /\ loop_start_time = NONE
  /\ pre_sample_tank_pressure = NONE
  /\ pre_sample_manifold_pressure = NONE
  /\ post_sample_tank_pressure = NONE
  /\ post_sample_manifold_pressure = NONE
  /\ pre_t_small_tank_pressure = NONE
  /\ post_t_small_tank_pressure = NONE
  /\ opened = [c \in Collections |-> {}]
  /\ probes = [c \in Collections |-> 0]
  /\ log = [c \in Collections |-> {}]
  /\ StageIdle
  /\ UnitsIdle

(***************************************************************************)
(* Helpers                                                                 *)
(***************************************************************************)
\* mutant: the target has to be exceeded
MeetsTarget_Strict(p, c) == p * 100 > 95 * up_final_stagnation_pressure[c]

\* p >= 0.95 * target, in integers
MeetsTarget(p, c) == p * 100 >= 95 * up_final_stagnation_pressure[c]

\* mutant: the sentinel is not tested, so a lost reading counts as a change
TankDeltaZero_NoSentinel(pre, post) == Abs(post - pre) < delta_pressure_threshold

\* "ΔP ≈ 0 OR either pressure = -1" of the tank diagnosis and of the t_small test
TankDeltaZero(pre, post) ==
  \/ Abs(post - pre) < delta_pressure_threshold
  \/ post = SENTINEL
  \/ pre = SENTINEL

\* mutant: a lost manifold reading counts as no change
ManifoldDeltaZero_Sentinel(pre, post) ==
  \/ Abs(post - pre) < delta_pressure_threshold
  \/ post = SENTINEL
  \/ pre = SENTINEL

\* "ΔPmanifold ≈ 0"
ManifoldDeltaZero(pre, post) == Abs(post - pre) < delta_pressure_threshold

\* mutant: the try counter is never tested after a missed target
OutOfTries_Never(n) == FALSE

\* mutant: the sample is given up only after the third try
OutOfTries_Third(n) == n >= 3

\* "Second Try?"
OutOfTries(n) == n >= 2

\* mutant: the sample loop allows a single try
MayTry_Once(n) == n < 1

\* loop condition of the sample loop
MayTry(n) == n < 3

\* mutant: only a tank that was never classified is skipped
IsNotReady_OnlyUnknown(c) == tank_state[c] = "UNKNOWN"

\* mutant: the plumbing state is not consulted
PlumbingNotReady_Never == FALSE

\* the skip tests at the head of the for loop
IsLastResort(c) == tank_state[c] = "LAST_RESORT"
IsNotReady(c) == tank_state[c] # "READY"
PlumbingNotReady == plumbing_state # "READY"

\* Valve.open() / Valve.close() on a set of valves
Opened(vs) == [v \in ValveNames |-> IF v \in vs THEN "OPEN" ELSE valve[v]]
Closed(vs) == [v \in ValveNames |-> IF v \in vs THEN "CLOSED" ELSE valve[v]]

Logged(c, tags) == log' = [log EXCEPT ![c] = @ \cup tags]

(***************************************************************************)
(* LogPressures                                                            *)
(***************************************************************************)
\* mutant: the two bounds are exchanged
target_temp_Swapped(sampling) == IF sampling THEN T_ANYTIME ELSE T_SAMPLE

\* the bound execute() compares the tank temperatures with
target_temp(sampling) == IF sampling THEN T_SAMPLE ELSE T_ANYTIME

\* the DPV reading alone sets the flag
DpvTrip(dpv, dpv_triple) == dpv >= T_ANYTIME /\ dpv_triple >= T_ANYTIME

\* a tank reading sets the flag
TankTrip(temps, temps_triple, sampling) ==
  /\ \E s \in TempSensors : temps[s] >= target_temp(sampling)
  /\ \E s \in TempSensors : temps_triple[s] >= target_temp(sampling)

\* mutant: a single reading at the bound sets the flag without the triple reading
ThermalTrip_Unconfirmed(dpv, dpv_triple, temps, temps_triple, sampling) ==
  \/ dpv >= T_ANYTIME
  \/ \E s \in TempSensors : temps[s] >= target_temp(sampling)

\* the thermal evaluation of LogPressures.execute, given the readings it takes
ThermalTrip(dpv, dpv_triple, temps, temps_triple, sampling) ==
  \/ DpvTrip(dpv, dpv_triple)
  \/ TankTrip(temps, temps_triple, sampling)

\* the thermal evaluation is due
CheckDue(current_time) == current_time >= time_last_sampled + time_btw_temp_checks

\* mutant: the early return of the flag-set path is missing
OnlyPressures_Never == FALSE

\* the flag is set: execute() writes the pressures and returns
OnlyPressures == temp_thresh_reached

\* one call of LogPressures.run() from a loop; mission time dt passes meanwhile
LogPressures_poll(dt) ==
  /\ now' = now + dt
  /\ IF OnlyPressures
       THEN UNCHANGED <<temp_thresh_reached, time_last_sampled>>
       ELSE IF CheckDue(now)
              THEN /\ time_last_sampled' = now
                   /\ temp_thresh_reached' \in
                        { temp_thresh_reached \/
                            ThermalTrip(r[1], r[2], r[3], r[4], currently_sampling) :
                            r \in DpvTemperatures \X DpvTemperatures \X
                                  [TempSensors -> Temperatures] \X
                                  [TempSensors -> Temperatures] }
              ELSE UNCHANGED <<temp_thresh_reached, time_last_sampled>>

\* one call of LogPressures.run() from a wait loop of SampleUpwards
LogPressures_run == LogPressures_poll(Tick)

(***************************************************************************)
(* SampleUpwards                                                           *)
(***************************************************************************)
ResetLocals ==
  /\ loop_start_time' = NONE
  /\ pre_sample_tank_pressure' = NONE
  /\ pre_sample_manifold_pressure' = NONE
  /\ post_sample_tank_pressure' = NONE
  /\ post_sample_manifold_pressure' = NONE
  /\ pre_t_small_tank_pressure' = NONE
  /\ post_t_small_tank_pressure' = NONE

\* run(): is_ready() and initialize() (every collaborator is set), then execute()
\* is entered; initialize() refuses to start once the thermal flag is set
Run ==
  /\ pc = "start"
  /\ IF temp_thresh_reached
       THEN pc' = "done" /\ result' = "False"
       ELSE pc' = "for" /\ result' = result
  /\ UNCHANGED <<ci, now, tank_state, sampled_count, plumbing_state,
                 temp_thresh_reached, currently_sampling, time_last_sampled, valve,
                 tank_valve, locals, opened, probes, log>>
  /\ UNCHANGED stageVars

\* the for loop is exhausted: execute() returns, cleanup(), run() returns True
Finish ==
  /\ pc = "for"
  /\ ci > NumCollections
  /\ pc' = "done"
  /\ result' = "True"
  /\ UNCHANGED <<ci, now, tank_state, sampled_count, plumbing_state,
                 temp_thresh_reached, currently_sampling, time_last_sampled, valve,
                 tank_valve, locals, opened, probes, log>>
  /\ UNCHANGED stageVars

\* the three "continue" branches at the head of the for loop
SkipCollection ==
  /\ pc = "for"
  /\ ci \in Collections
  /\ IsLastResort(ci) \/ IsNotReady(ci) \/ PlumbingNotReady
  /\ Logged(ci, IF IsLastResort(ci) THEN {"skip_last_resort"}
                ELSE IF IsNotReady(ci) THEN {"skip_not_ready"}
                ELSE {"skip_plumbing"})
  /\ ci' = ci + 1
  /\ UNCHANGED <<pc, result, now, tank_state, sampled_count, plumbing_state,
                 temp_thresh_reached, currently_sampling, time_last_sampled, valve,
                 tank_valve, locals, opened, probes>>
  /\ UNCHANGED stageVars

\* the else branch: start waiting for the collection's time
StartWaiting ==
  /\ pc = "for"
  /\ ci \in Collections
  /\ ~(IsLastResort(ci) \/ IsNotReady(ci) \/ PlumbingNotReady)
  /\ Logged(ci, {"waiting"})
  /\ currently_sampling' = FALSE
  /\ pc' = "wait"
  /\ UNCHANGED <<result, ci, now, tank_state, sampled_count, plumbing_state,
                 temp_thresh_reached, time_last_sampled, valve,
                 tank_valve, locals, opened, probes>>
  /\ UNCHANGED stageVars

\* the time the wait loop waits for
WaitDeadline(c) == up_start_time[c] - bleed_duration[c]

\* one iteration of the wait loop; execute() returns when the flag is seen
WaitPoll ==
  /\ pc = "wait"
  /\ now < WaitDeadline(ci)
  /\ LogPressures_run
  /\ IF temp_thresh_reached'
       THEN /\ Logged(ci, {"abort_wait"})
            /\ pc' = "done"
            /\ result' = "True"
       ELSE UNCHANGED <<log, pc, result>>
  /\ UNCHANGED <<ci, tank_state, sampled_count, plumbing_state,
                 currently_sampling, valve, tank_valve, locals, opened, probes>>
  /\ UNCHANGED stageVars

\* the wait loop ends; _do_sample_collection opens the bleed
StartBleed ==
  /\ pc = "wait"
  /\ ~(now < WaitDeadline(ci))
  /\ Logged(ci, {"beginning", "bleeding"})
  /\ valve' = Opened({"dynamic", "static"})
  /\ opened' = [opened EXCEPT ![ci] = @ \cup {"dynamic", "static"}]
  /\ loop_start_time' = now
  /\ currently_sampling' = FALSE
  /\ pc' = "bleed"
  /\ UNCHANGED <<result, ci, now, tank_state, sampled_count, plumbing_state,
                 temp_thresh_reached, time_last_sampled, tank_valve,
                 pre_sample_tank_pressure, pre_sample_manifold_pressure,
                 post_sample_tank_pressure, post_sample_manifold_pressure,
                 pre_t_small_tank_pressure, post_t_small_tank_pressure, probes>>
  /\ UNCHANGED stageVars

\* mutant: the bleed loop does not look at the thermal flag
BleedPoll_IgnoresFlag ==
  /\ pc = "bleed"
  /\ now < loop_start_time + bleed_duration[ci]
  /\ LogPressures_run
  /\ UNCHANGED <<log, pc, result, ci, tank_state, sampled_count, plumbing_state,
                 currently_sampling, valve, tank_valve, locals, opened, probes>>
  /\ UNCHANGED stageVars

\* one iteration of the bleed loop; _do_sample_collection returns when the flag is seen
BleedPoll ==
  /\ pc = "bleed"
  /\ now < loop_start_time + bleed_duration[ci]
  /\ LogPressures_run
  /\ IF temp_thresh_reached'
       THEN /\ Logged(ci, {"abort_bleed"})
            /\ pc' = "returned"
       ELSE UNCHANGED <<log, pc>>
  /\ UNCHANGED <<result, ci, tank_state, sampled_count, plumbing_state,
                 currently_sampling, valve, tank_valve, locals, opened, probes>>
  /\ UNCHANGED stageVars

\* the bleed is over: close static, take the reference pressures
EndBleed ==
  /\ pc = "bleed"
  /\ ~(now < loop_start_time + bleed_duration[ci])
  /\ valve' = Closed({"static"})
  /\ \E pt \in TankPressures, pm \in ManifoldPressures :
       /\ pre_sample_tank_pressure' = pt
       /\ pre_sample_manifold_pressure' = pm
  /\ pc' = "loop"
  /\ UNCHANGED <<result, ci, now, tank_state, sampled_count, plumbing_state,
                 temp_thresh_reached, currently_sampling, time_last_sampled,
                 tank_valve, loop_start_time,
                 post_sample_tank_pressure, post_sample_manifold_pressure,
                 pre_t_small_tank_pressure, post_t_small_tank_pressure,
                 opened, probes, log>>
  /\ UNCHANGED stageVars

\* head of the sample loop: one more try is started, or the loop (and with it
\* _do_sample_collection) ends.  The readings of the previous try are not read
\* again before they are reassigned.
SampleLoopHead ==
  /\ pc = "loop"
  /\ IF MayTry(sampled_count[ci])
       THEN /\ sampled_count' = [sampled_count EXCEPT ![ci] = @ + 1]
            /\ valve' = Opened({"dynamic", "main"})
            /\ tank_valve' = [tank_valve EXCEPT ![ci] = "OPEN"]
            /\ opened' = [opened EXCEPT ![ci] = @ \cup {"dynamic", "main", "tank"}]
            /\ Logged(ci, {"try"})
            /\ loop_start_time' = now
            /\ currently_sampling' = TRUE
            /\ pc' = "sample"
       ELSE /\ pc' = "returned"
            /\ UNCHANGED <<sampled_count, valve, tank_valve, opened, log,
                           loop_start_time, currently_sampling>>
  /\ post_sample_tank_pressure' = NONE
  /\ post_sample_manifold_pressure' = NONE
  /\ pre_t_small_tank_pressure' = NONE
  /\ post_t_small_tank_pressure' = NONE
  /\ UNCHANGED <<result, ci, now, tank_state, plumbing_state,
                 temp_thresh_reached, time_last_sampled,
                 pre_sample_tank_pressure, pre_sample_manifold_pressure, probes>>
  /\ UNCHANGED stageVars

\* mutant: the sampling loop returns on the thermal flag without failing the sample
SamplePoll_KeepsState ==
  /\ pc = "sample"
  /\ now < loop_start_time + up_duration[ci]
  /\ LogPressures_run
  /\ IF temp_thresh_reached'
       THEN /\ Logged(ci, {"abort_sample"})
            /\ pc' = "returned"
       ELSE UNCHANGED <<log, pc>>
  /\ UNCHANGED <<result, ci, tank_state, sampled_count, plumbing_state,
                 currently_sampling, valve, tank_valve, locals, opened, probes>>
  /\ UNCHANGED stageVars

\* one iteration of the sampling loop; the thermal flag fails the sample
SamplePoll ==
  /\ pc = "sample"
  /\ now < loop_start_time + up_duration[ci]
  /\ LogPressures_run
  /\ IF temp_thresh_reached'
       THEN /\ Logged(ci, {"abort_sample"})
            /\ tank_state' = [tank_state EXCEPT ![ci] = "FAILED_SAMPLE"]
            /\ pc' = "returned"
       ELSE UNCHANGED <<log, tank_state, pc>>
  /\ UNCHANGED <<result, ci, sampled_count, plumbing_state,
                 currently_sampling, valve, tank_valve, locals, opened, probes>>
  /\ UNCHANGED stageVars

\* "Close VDynamic, Vmain & Vtankx"
CloseSampleValves ==
  /\ valve' = Closed({"dynamic", "main"})
  /\ tank_valve' = [tank_valve EXCEPT ![ci] = "CLOSED"]

\* the sampling interval is over: close the valves, read the tank and decide
EndSample ==
  /\ pc = "sample"
  /\ ~(now < loop_start_time + up_duration[ci])
  /\ \E post \in TankPressures :
       /\ post_sample_tank_pressure' = post
       /\ IF MeetsTarget(post, ci)
            THEN /\ tank_state' = [tank_state EXCEPT ![ci] = "SAMPLED"]
                 /\ Logged(ci, {"met"})
                 /\ CloseSampleValves
                 /\ pc' = "returned"
                 /\ UNCHANGED <<plumbing_state, post_sample_manifold_pressure>>
            ELSE IF OutOfTries(sampled_count[ci])
            THEN /\ tank_state' = [tank_state EXCEPT ![ci] = "FAILED_SAMPLE"]
                 /\ Logged(ci, {"not_met", "out_of_tries"})
                 /\ CloseSampleValves
                 /\ pc' = "returned"
                 /\ UNCHANGED <<plumbing_state, post_sample_manifold_pressure>>
            ELSE IF TankDeltaZero(pre_sample_tank_pressure, post)
            THEN /\ \E pm \in ManifoldPressures :
                      /\ post_sample_manifold_pressure' = pm
                      /\ IF ManifoldDeltaZero(pre_sample_manifold_pressure, pm)
                           THEN /\ plumbing_state' = "MAIN_LINE_FAILURE"
                                /\ Logged(ci, {"not_met", "main_line_failure"})
                                /\ UNCHANGED tank_state
                           ELSE /\ tank_state' = [tank_state EXCEPT ![ci] = "FAILED_SAMPLE"]
                                /\ Logged(ci, {"not_met", "valve_failed"})
                                /\ UNCHANGED plumbing_state
                 /\ CloseSampleValves
                 /\ pc' = "returned"
            ELSE /\ Logged(ci, {"not_met"})
                 /\ CloseSampleValves
                 /\ pc' = "probe"
                 /\ UNCHANGED <<tank_state, plumbing_state,
                                post_sample_manifold_pressure>>
  /\ UNCHANGED <<result, ci, now, sampled_count, temp_thresh_reached,
                 currently_sampling, time_last_sampled, loop_start_time,
                 pre_sample_tank_pressure, pre_sample_manifold_pressure,
                 pre_t_small_tank_pressure, post_t_small_tank_pressure,
                 opened, probes>>
  /\ UNCHANGED stageVars

\* the tank pressure moved but the target was missed: take the reference
\* pressure of the t_small test and reopen the sample valves.  The post-sample
\* reading is not read again.
StartTSmall ==
  /\ pc = "probe"
  /\ \E pre \in TankPressures : pre_t_small_tank_pressure' = pre
  /\ post_sample_tank_pressure' = NONE
  /\ valve' = Opened({"dynamic", "main"})
  /\ tank_valve' = [tank_valve EXCEPT ![ci] = "OPEN"]
  /\ opened' = [opened EXCEPT ![ci] = @ \cup {"dynamic", "main", "tank"}]
  /\ probes' = [probes EXCEPT ![ci] = @ + 1]
  /\ Logged(ci, {"t_small"})
  /\ loop_start_time' = now
  /\ currently_sampling' = TRUE
  /\ pc' = "tsmall"
  /\ UNCHANGED <<result, ci, now, tank_state, sampled_count, plumbing_state,
                 temp_thresh_reached, time_last_sampled,
                 pre_sample_tank_pressure, pre_sample_manifold_pressure,
                 post_sample_manifold_pressure, post_t_small_tank_pressure>>
  /\ UNCHANGED stageVars

\* one iteration of the t_small loop; the thermal flag fails the sample
TSmallPoll ==
  /\ pc = "tsmall"
  /\ now < loop_start_time + t_small
  /\ LogPressures_run
  /\ IF temp_thresh_reached'
       THEN /\ Logged(ci, {"abort_t_small"})
            /\ tank_state' = [tank_state EXCEPT ![ci] = "FAILED_SAMPLE"]
            /\ pc' = "returned"
       ELSE UNCHANGED <<log, tank_state, pc>>
  /\ UNCHANGED <<result, ci, sampled_count, plumbing_state,
                 currently_sampling, valve, tank_valve, locals, opened, probes>>
  /\ UNCHANGED stageVars

\* the t_small probe is over: close the valves, read the tank and decide
EndTSmall ==
  /\ pc = "tsmall"
  /\ ~(now < loop_start_time + t_small)
  /\ \E post \in TankPressures :
       /\ post_t_small_tank_pressure' = post
       /\ IF TankDeltaZero(pre_t_small_tank_pressure, post)
            THEN /\ tank_state' = [tank_state EXCEPT ![ci] = "FAILED_SAMPLE"]
                 /\ Logged(ci, {"vacuum_compromised"})
                 /\ CloseSampleValves
                 /\ pc' = "returned"
            ELSE IF MeetsTarget(post, ci)
            THEN /\ tank_state' = [tank_state EXCEPT ![ci] = "SAMPLED"]
                 /\ Logged(ci, {"changed", "met_t_small"})
                 /\ CloseSampleValves
                 /\ pc' = "returned"
            ELSE /\ Logged(ci, {"changed", "trying_again"})
                 /\ CloseSampleValves
                 /\ pc' = "loop"
                 /\ UNCHANGED tank_state
  /\ UNCHANGED <<result, ci, now, plumbing_state, temp_thresh_reached,
                 sampled_count, opened, loop_start_time, currently_sampling,
                 time_last_sampled, pre_sample_tank_pressure,
                 pre_sample_manifold_pressure, post_sample_tank_pressure,
                 post_sample_manifold_pressure, pre_t_small_tank_pressure, probes>>
  /\ UNCHANGED stageVars

\* _do_sample_collection has returned: execute() logs the outcome and moves on
LogOutcome ==
  /\ pc = "returned"
  /\ Logged(ci, IF tank_state[ci] = "SAMPLED" THEN {"succeeded"} ELSE {"failed"})
  /\ ci' = ci + 1
  /\ pc' = "for"
  /\ ResetLocals
  /\ UNCHANGED <<result, now, tank_state, sampled_count, plumbing_state,
                 temp_thresh_reached, currently_sampling, time_last_sampled, valve,
                 tank_valve, opened, probes>>
  /\ UNCHANGED stageVars

Next ==
  \/ Run
  \/ SkipCollection
  \/ StartWaiting
  \/ WaitPoll
  \/ StartBleed
  \/ BleedPoll
  \/ EndBleed
  \/ SampleLoopHead
  \/ SamplePoll
  \/ EndSample
  \/ StartTSmall
  \/ TSmallPoll
  \/ EndTSmall
  \/ LogOutcome
  \/ Finish

Spec == Init /\ [][Next]_vars

\* the clock advances and the single thread of control keeps running
LiveSpec == Spec /\ WF_vars(Next)

TypeOK ==
  /\ pc \in {"start", "for", "wait", "bleed", "loop", "sample", "probe", "tsmall", "returned", "done"}
  /\ result \in {"none", "True", "False"}
  /\ ci \in 1..(NumCollections + 1)
  /\ tank_state \in [Collections -> TankState]
  /\ plumbing_state \in PlumbingState
  /\ temp_thresh_reached \in BOOLEAN
  /\ currently_sampling \in BOOLEAN

(***************************************************************************)
(* Properties                                                              *)
(***************************************************************************)
Terminal == {"SAMPLED", "FAILED_SAMPLE"}

C1_Final ==
  /\ pc = "done" =>
       \A c \in Collections :
         \/ tank_state[c] # "READY"
         \/ plumbing_state = "MAIN_LINE_FAILURE"
         \/ temp_thresh_reached
  /\ \A c \in Collections :
       /\ sampled_count[c] <= 3
       /\ probes[c] <= sampled_count[c]

C2_FailedOnlyAfterThird ==
  \A c \in Collections : "out_of_tries" \in log[c] => sampled_count[c] = 3

\* C2 amended: a collection whose pressure keeps changing but never reaches
\* the target gets 2 full attempts: the retry after a moving t_small probe is
\* the 2nd attempt, FAILED_SAMPLE for lack of tries is declared when the 2nd
\* attempt missed the target (never after the 1st), and there is no 3rd.
C2_TwoAttempts ==
  \A c \in Collections :
    /\ sampled_count[c] <= 2
    /\ ("trying_again" \in log[c] /\ ~(pc = "loop" /\ ci = c)) => sampled_count[c] = 2
    /\ "out_of_tries" \in log[c] =>
         /\ sampled_count[c] = 2
         /\ tank_state[c] = "FAILED_SAMPLE"
    /\ (sampled_count[c] = 2 /\ tank_state[c] = "FAILED_SAMPLE" /\ pc = "returned"
          /\ ci = c /\ ~temp_thresh_reached)
         => "out_of_tries" \in log[c]

\* C2 witness: the 2nd attempt of a collection missed the target after a moving probe
C2_Witness ==
  \E c \in Collections :
    /\ "trying_again" \in log[c]
    /\ "out_of_tries" \in log[c]
    /\ post_sample_tank_pressure = 200
    /\ probes[c] = 1

\* the sampling interval of the current collection has just ended
SampleOver == pc = "sample" /\ ~(now < loop_start_time + up_duration[ci])

\* the t_small interval of the current collection has just ended
TSmallOver == pc = "tsmall" /\ ~(now < loop_start_time + t_small)

\* a step that decides the current collection ends its handling: no try, no
\* probe and no valve opening is added by the step
Stops ==
  /\ pc' = "returned"
  /\ sampled_count' = sampled_count
  /\ probes' = probes
  /\ opened' = opened
  /\ valve'["main"] = "CLOSED"
  /\ valve'["dynamic"] = "CLOSED"
  /\ tank_valve'[ci] = "CLOSED"

\* a decided collection is not taken up again: the for loop moves on after
\* _do_sample_collection returns, and a collection the loop has passed keeps its
\* counters, its tank valve and its tank state
NotRetried ==
  /\ pc = "returned" => (pc' = "for" /\ ci' = ci + 1)
  /\ ci' >= ci
  /\ \A c \in Collections :
       c < ci => /\ sampled_count'[c] = sampled_count[c]
                 /\ probes'[c] = probes[c]
                 /\ opened'[c] = opened[c]
                 /\ tank_valve'[c] = tank_valve[c]
                 /\ tank_state'[c] = tank_state[c]
  /\ pc = "returned" =>
       /\ sampled_count' = sampled_count
       /\ probes' = probes
       /\ opened' = opened
       /\ valve' = valve
       /\ tank_valve' = tank_valve
       /\ tank_state' = tank_state

\* the first try missed the target and the tank pressure did not move (or a
\* tank reading was lost)
FirstTryTankStuck ==
  /\ SampleOver
  /\ sampled_count[ci] = 1
  /\ post_sample_tank_pressure' * 100 < 95 * up_final_stagnation_pressure[ci]
  /\ \/ Abs(post_sample_tank_pressure' - pre_sample_tank_pressure) < delta_pressure_threshold
     \/ post_sample_tank_pressure' = SENTINEL
     \/ pre_sample_tank_pressure = SENTINEL

\* C3: after a first try that missed the target with the tank pressure not
\* moved (or a tank reading lost), the manifold is re-read, and if it differs
\* from its reference by less than the threshold the plumbing becomes
\* MAIN_LINE_FAILURE and the collection is not tried again.
C3_MainLineFailure ==
  [][ /\ FirstTryTankStuck =>
           /\ post_sample_manifold_pressure' \in ManifoldPressures
           /\ Stops
           /\ Abs(post_sample_manifold_pressure' - pre_sample_manifold_pressure)
                  < delta_pressure_threshold
                => /\ plumbing_state' = "MAIN_LINE_FAILURE"
                   /\ tank_state' = tank_state
      /\ NotRetried ]_vars

\* C3 witness: main line failure diagnosed from an unmoved tank and manifold
C3_Witness ==
  /\ pc = "returned"
  /\ plumbing_state = "MAIN_LINE_FAILURE"
  /\ pre_sample_tank_pressure = 100
  /\ post_sample_tank_pressure = 120
  /\ pre_sample_manifold_pressure = 800
  /\ post_sample_manifold_pressure = 800
  /\ tank_state[ci] = "READY"
  /\ sampled_count[ci] = 1

C5_SampledIffTargetMet ==
  [][ /\ \A c \in Collections :
           (tank_state'[c] = "SAMPLED" /\ tank_state[c] # "SAMPLED") =>
             /\ c = ci
             /\ tank_valve'[c] = "CLOSED"
             /\ valve'["main"] = "CLOSED"
             /\ valve'["dynamic"] = "CLOSED"
             /\ \/ /\ SampleOver
                   /\ post_sample_tank_pressure' # SENTINEL
                   /\ post_sample_tank_pressure' * 100
                        >= 95 * up_final_stagnation_pressure[c]
                \/ /\ TSmallOver
                   /\ post_t_small_tank_pressure' # SENTINEL
                   /\ post_t_small_tank_pressure' * 100
                        >= 95 * up_final_stagnation_pressure[c]
      /\ ( /\ SampleOver
           /\ post_sample_tank_pressure' * 100 >= 95 * up_final_stagnation_pressure[ci] )
         => /\ tank_state'[ci] = "SAMPLED"
            /\ Stops
      /\ NotRetried ]_vars

\* C5 witness: a tank sampled by a post-sample reading of exactly 95% of the target
C5_Witness ==
  /\ pc = "returned"
  /\ tank_state[ci] = "SAMPLED"
  /\ post_sample_tank_pressure * 100 = 95 * up_final_stagnation_pressure[ci]

\* C6: at the end of a t_small probe, a tank pressure that moved by less than
\* the threshold across the probe (or a lost probe reading) fails the tank and
\* ends the collection; otherwise, with the target still unmet, the sample loop
\* starts a new full try with the try counter incremented.
C6_TSmallOutcome ==
  [][ /\ TSmallOver =>
           IF \/ Abs(post_t_small_tank_pressure' - pre_t_small_tank_pressure)
                    < delta_pressure_threshold
              \/ post_t_small_tank_pressure' = SENTINEL
              \/ pre_t_small_tank_pressure = SENTINEL
             THEN /\ tank_state'[ci] = "FAILED_SAMPLE"
                  /\ Stops
             ELSE (post_t_small_tank_pressure' * 100
                       < 95 * up_final_stagnation_pressure[ci])
                    => /\ pc' = "loop"
                       /\ tank_state' = tank_state
      /\ (pc = "loop" /\ probes[ci] > 0) =>
           /\ pc' = "sample"
           /\ sampled_count'[ci] = sampled_count[ci] + 1
           /\ tank_valve'[ci] = "OPEN"
      /\ NotRetried ]_vars

\* C6 witness: a new try was started after a probe that moved the tank pressure
C6_Witness ==
  /\ pc = "sample"
  /\ sampled_count[ci] = 2
  /\ probes[ci] = 1
  /\ "trying_again" \in log[ci]

\* C7: a collection whose tank is LAST_RESORT, or in any state but READY, when
\* the for loop reaches it is passed over: no valve is commanded, and the tank
\* state and sampled_count stay as they are, then and later.
C7_NotReadyNeverSampled ==
  [][ /\ (pc = "for" /\ ci \in Collections /\ tank_state[ci] # "READY") =>
           /\ pc' = "for"
           /\ ci' = ci + 1
           /\ valve' = valve
           /\ tank_valve' = tank_valve
           /\ opened' = opened
           /\ tank_state' = tank_state
           /\ sampled_count' = sampled_count
      /\ NotRetried ]_vars

\* C7 witness: a LAST_RESORT and an UNSAFE tank were passed over untouched
C7_Witness ==
  /\ pc = "done"
  /\ tank_state[1] = "LAST_RESORT"
  /\ tank_state[NumCollections] = "UNSAFE"
  /\ \A c \in {1, NumCollections} : opened[c] = {} /\ sampled_count[c] = 0

\* C8: a collection reached while the plumbing is in MAIN_LINE_FAILURE is
\* passed over without commanding a valve, and no step of SampleUpwards takes
\* the plumbing out of MAIN_LINE_FAILURE.
C8_MainLineFailureSkips ==
  [][ /\ (pc = "for" /\ ci \in Collections /\ plumbing_state = "MAIN_LINE_FAILURE") =>
           /\ pc' = "for"
           /\ ci' = ci + 1
           /\ valve' = valve
           /\ tank_valve' = tank_valve
           /\ opened' = opened
           /\ tank_state' = tank_state
           /\ sampled_count' = sampled_count
      /\ plumbing_state = "MAIN_LINE_FAILURE" => plumbing_state' = "MAIN_LINE_FAILURE" ]_vars

\* C8 witness: a READY collection passed over after an earlier collection of
\* the same run diagnosed the main line failure
C8_Witness ==
  /\ pc = "done"
  /\ "main_line_failure" \in log[1]
  /\ tank_state[NumCollections] = "READY"
  /\ "skip_plumbing" \in log[NumCollections]
  /\ opened[NumCollections] = {}

\* C9: when a poll of the sampling loop or of the t_small loop sees the
\* thermal flag set, the tank becomes FAILED_SAMPLE in that step and the
\* collection gets no further try or probe.
C9_ThermalDuringSampling ==
  [][ /\ (pc \in {"sample", "tsmall"} /\ temp_thresh_reached') =>
           /\ tank_state'[ci] = "FAILED_SAMPLE"
           /\ pc' = "returned"
           /\ sampled_count' = sampled_count
           /\ probes' = probes
      /\ NotRetried ]_vars

\* C9 witness: the flag was seen during a t_small probe
C9_Witness ==
  /\ pc = "returned"
  /\ temp_thresh_reached
  /\ tank_state[ci] = "FAILED_SAMPLE"
  /\ probes[ci] = 1
  /\ post_t_small_tank_pressure = NONE
  /\ "abort_t_small" \in log[ci]

\* C10: when a poll of the wait loop or of the bleed loop sees the thermal
\* flag set, the collection is abandoned in that step: its main and tank valve
\* have not been and are never opened, its sampled_count stays 0 and its tank
\* stays READY.
C10_ThermalBeforeSampling ==
  [][ /\ ( /\ \/ pc = "wait" /\ now < up_start_time[ci] - bleed_duration[ci]
              \/ pc = "bleed" /\ now < loop_start_time + bleed_duration[ci]
           /\ temp_thresh_reached' ) =>
           /\ pc' \in {"done", "returned"}
           /\ sampled_count'[ci] = 0
           /\ tank_state'[ci] = "READY"
           /\ opened'[ci] \subseteq {"dynamic", "static"}
           /\ valve'["main"] = valve["main"]
           /\ tank_valve'[ci] = "CLOSED"
      /\ temp_thresh_reached =>
           /\ sampled_count' = sampled_count
           /\ tank_state' = tank_state
           /\ tank_valve' = tank_valve
           /\ valve'["main"] = valve["main"]
           /\ \A c \in Collections : opened'[c] \subseteq opened[c] \cup {"dynamic", "static"}
      /\ NotRetried ]_vars

\* C10 witness: the flag was seen during the bleed of a collection
C10_Witness ==
  /\ pc = "returned"
  /\ temp_thresh_reached
  /\ "abort_bleed" \in log[ci]
  /\ tank_state[ci] = "READY"
  /\ sampled_count[ci] = 0
  /\ valve["static"] = "OPEN"

(***************************************************************************)
(* LogPressures on its own: any caller invokes run() again and again while *)
(* mission time passes, and switches the sampling mode in between.         *)
(***************************************************************************)
\* mission time until which LogPressures is called
LPHorizon == 60
\* mission time that may pass between two calls (ms)
LPTicks == {5, 15}
\* mission time of the first call (ms): T+ is negative until launch
LPStarts == {-15, 0}

\* SampleUpwards is not running
SampleUpwardsIdle ==
  /\ result = "none"
  /\ ci = 1
  /\ tank_state = [c \in Collections |-> "UNKNOWN"]
  /\ sampled_count = [c \in Collections |-> 0]
  /\ tank_valve = [c \in Collections |-> "CLOSED"]
  /\ loop_start_time = NONE
  /\ pre_sample_tank_pressure = NONE
  /\ pre_sample_manifold_pressure = NONE
  /\ post_sample_tank_pressure = NONE
  /\ post_sample_manifold_pressure = NONE
  /\ pre_t_small_tank_pressure = NONE
  /\ post_t_small_tank_pressure = NONE
  /\ opened = [c \in Collections |-> {}]
  /\ probes = [c \in Collections |-> 0]
  /\ log = [c \in Collections |-> {}]

suVars == <<result, ci, tank_state, sampled_count, tank_valve, locals, opened, probes, log>>

\* what a due thermal evaluation reads: the DPV temperature, its triple reading when
\* the single one is at the bound, and the tanks' triple readings, in order up to
\* the first one at the bound, when a single tank reading is at the bound
DueReads(dpv, dpv_triple, temps, temps_triple, sampling) ==
  LET suspect == \E s \in TempSensors : temps[s] >= target_temp(sampling)
      tanks_checked == ~DpvTrip(dpv, dpv_triple) /\ suspect
      read(s) == \A q \in TempSensors : q < s => temps_triple[q] < target_temp(sampling)
  IN  [reads |-> {"pressure_and_temp", "temperature"}
                   \cup (IF dpv >= T_ANYTIME THEN {"dpv_triple"} ELSE {})
                   \cup (IF tanks_checked THEN {"triple_temperature"} ELSE {}),
       sampling |-> sampling,
       dpv |-> dpv,
       dpv_triple |-> IF dpv >= T_ANYTIME THEN dpv_triple ELSE NONE,
       temps |-> temps,
       temps_triple |-> [s \in TempSensors |->
                           IF tanks_checked /\ read(s) THEN temps_triple[s] ELSE NONE]]

\* LogPressures.run(): initialize() passes (all sensors are set), then execute()
LogPressures_execute ==
  /\ pc = "log"
  /\ now < LPHorizon
  /\ \E dt \in LPTicks : now' = now + dt
  /\ IF OnlyPressures
       THEN /\ lp_reads' = [NoReads EXCEPT !.reads = {"pressure"}]
            /\ UNCHANGED <<temp_thresh_reached, time_last_sampled>>
       ELSE IF CheckDue(now)
              THEN \E dpv \in DpvTemperatures, dpv_triple \in DpvTemperatures,
                      temps \in [TempSensors -> Temperatures],
                      temps_triple \in [TempSensors -> Temperatures] :
                     /\ time_last_sampled' = now
                     /\ temp_thresh_reached' =
                          (temp_thresh_reached \/
                             ThermalTrip(dpv, dpv_triple, temps, temps_triple, currently_sampling))
                     /\ lp_reads' = DueReads(dpv, dpv_triple, temps, temps_triple,
                                             currently_sampling)
              ELSE /\ lp_reads' = [NoReads EXCEPT !.reads = {"pressure_and_temp"}]
                   /\ UNCHANGED <<temp_thresh_reached, time_last_sampled>>
  /\ UNCHANGED <<pc, plumbing_state, currently_sampling, valve, suVars,
                 ti, tanks, tank_pressure, key_pressure, ref_manifold_pressure,
                 new_manifold_pressure, manifold_presence, ready_tanks, last_resort_tanks,
                 not_ready_tanks, assigned, unitVars>>

\* LogPressures.set_currently_sampling, called by the process that owns the loop
set_currently_sampling ==
  /\ pc = "log"
  /\ currently_sampling' = ~currently_sampling
  /\ UNCHANGED <<pc, now, plumbing_state, temp_thresh_reached, time_last_sampled,
                 valve, suVars, stageVars>>

LPInit ==
  /\ pc = "log"
  /\ now \in LPStarts
  /\ plumbing_state = "READY"
  /\ temp_thresh_reached \in BOOLEAN
  /\ currently_sampling \in BOOLEAN
  /\ time_last_sampled = 0
  /\ valve = [v \in ValveNames |-> "CLOSED"]
  /\ SampleUpwardsIdle
  /\ StageIdle
  /\ UnitsIdle

LPNext ==
  \/ LogPressures_execute
  \/ set_currently_sampling

LPSpec == LPInit /\ [][LPNext]_vars

(***************************************************************************)
(* Properties of LogPressures                                              *)
(***************************************************************************)
\* the last call evaluated the temperatures and set the flag
TrippedNow == temp_thresh_reached /\ "temperature" \in lp_reads.reads

\* the last call set the flag because of the tank temperatures
TrippedByTank == temp_thresh_reached /\ "triple_temperature" \in lp_reads.reads

\* C11: once the thermal flag is set, no step clears it, and every later call of
\* LogPressures.run() reads the pressures only: no temperature is read or compared
C11_StickyFlag ==
  [][ temp_thresh_reached =>
        /\ temp_thresh_reached'
        /\ now' # now => lp_reads'.reads = {"pressure"} ]_vars

\* the flag was set by an evaluation and a later call recorded the pressures only
C11_Witness ==
  /\ temp_thresh_reached
  /\ time_last_sampled > 0
  /\ lp_reads.reads = {"pressure"}

C13_SamplingBoundHigher ==
  (TrippedByTank /\ lp_reads.sampling) =>
     /\ target_temp(TRUE) > target_temp(FALSE)
     /\ TankTrip(lp_reads.temps, lp_reads.temps_triple, FALSE)

\* C13 as the code has it: the bound while sampling (T_SAMPLE) is the lower one, so
\* tank readings that set the flag when not sampling also set it while sampling
C13_SamplingBoundLower ==
  (TrippedByTank /\ ~lp_reads.sampling) =>
     /\ target_temp(TRUE) < target_temp(FALSE)
     /\ TankTrip(lp_reads.temps, lp_reads.temps_triple, TRUE)

\* a tank at T_ANYTIME set the flag when no sample was being taken
C13_Witness ==
  /\ TrippedByTank
  /\ ~lp_reads.sampling
  /\ \E s \in TempSensors : lp_reads.temps[s] >= T_ANYTIME

(***************************************************************************)
(* SwapTanks.run(): is_ready() and initialize() pass (as many collections  *)
(* as tanks), then execute() partitions the tanks, sorts the ready ones    *)
(* and hands them to the collections in declaration order.                 *)
(***************************************************************************)
\* states the tanks may be in when SwapTanks runs
SwapTankStates == {"READY", "LAST_RESORT", "UNSAFE", "UNREACHABLE"}
\* values triple_pressure may return as sort key
KeyPressures == {SENTINEL, 100, 500}

\* <<1, ..., n>>: self.tanks in list order
Identity(n) == [i \in 1..n |-> i]

\* list.remove of the element at position i
RemoveAt(seq, i) == SubSeq(seq, 1, i - 1) \o SubSeq(seq, i + 1, Len(seq))

\* t goes behind every element of the sorted list whose key is not greater
Insert(sorted, t, key) ==
  LET k == Cardinality({i \in 1..Len(sorted) : key[sorted[i]] <= key[t]})
  IN  SubSeq(sorted, 1, k) \o <<t>> \o SubSeq(sorted, k + 1, Len(sorted))

\* list.sort(key=...): ascending and stable
RECURSIVE StableSort(_, _)
StableSort(seq, key) ==
  IF seq = <<>> THEN <<>>
  ELSE Insert(StableSort(SubSeq(seq, 1, Len(seq) - 1), key), seq[Len(seq)], key)

swapLists == <<ready_tanks, last_resort_tanks, not_ready_tanks>>

SwapFrame ==
  UNCHANGED <<result, now, plumbing_state, temp_thresh_reached, currently_sampling,
              time_last_sampled, valve, ci, tank_state, sampled_count, tank_valve,
              locals, opened, probes, log, lp_reads, tanks, tank_pressure,
              ref_manifold_pressure, new_manifold_pressure, manifold_presence, unitVars>>

\* one iteration of "for tank in self.tanks": ready_tanks is the same list object,
\* so removing the current tank moves the following tanks one position down
SwapPartition ==
  /\ pc = "partition"
  /\ ti <= Len(ready_tanks)
  /\ LET tank == ready_tanks[ti]
     IN  IF tanks[tank] # "READY"
           THEN /\ ready_tanks' = RemoveAt(ready_tanks, ti)
                /\ IF tanks[tank] = "LAST_RESORT"
                     THEN /\ last_resort_tanks' = Append(last_resort_tanks, tank)
                          /\ UNCHANGED not_ready_tanks
                     ELSE /\ not_ready_tanks' = Append(not_ready_tanks, tank)
                          /\ UNCHANGED last_resort_tanks
           ELSE UNCHANGED swapLists
  /\ ti' = ti + 1
  /\ UNCHANGED <<pc, key_pressure, assigned>>
  /\ SwapFrame

\* the for loop is exhausted: sort ready_tanks by a fresh triple_pressure of each
SwapSort ==
  /\ pc = "partition"
  /\ ti > Len(ready_tanks)
  /\ \E key \in [Tanks -> KeyPressures] :
       /\ key_pressure' = [t \in Tanks |->
                             IF \E i \in 1..Len(ready_tanks) : ready_tanks[i] = t
                               THEN key[t] ELSE NONE]
       /\ ready_tanks' = StableSort(ready_tanks, key)
  /\ pc' = "assign"
  /\ ti' = 1
  /\ UNCHANGED <<last_resort_tanks, not_ready_tanks, assigned>>
  /\ SwapFrame

\* one iteration of "for collection in self.collections"
SwapAssign ==
  /\ pc = "assign"
  /\ ti <= NumTanks
  /\ IF last_resort_tanks # <<>>
       THEN /\ assigned' = [assigned EXCEPT ![ti] = Head(last_resort_tanks)]
            /\ last_resort_tanks' = Tail(last_resort_tanks)
            /\ UNCHANGED <<ready_tanks, not_ready_tanks>>
       ELSE IF ready_tanks # <<>>
              THEN /\ assigned' = [assigned EXCEPT ![ti] = Head(ready_tanks)]
                   /\ ready_tanks' = Tail(ready_tanks)
                   /\ UNCHANGED <<last_resort_tanks, not_ready_tanks>>
              ELSE IF not_ready_tanks # <<>>
                     THEN /\ assigned' = [assigned EXCEPT ![ti] = Head(not_ready_tanks)]
                          /\ not_ready_tanks' = Tail(not_ready_tanks)
                          /\ UNCHANGED <<ready_tanks, last_resort_tanks>>
                     ELSE UNCHANGED <<assigned, swapLists>>
  /\ ti' = ti + 1
  /\ UNCHANGED <<pc, key_pressure>>
  /\ SwapFrame

\* every collection was visited: execute() returns, cleanup(), run() returns True
SwapFinish ==
  /\ pc = "assign"
  /\ ti > NumTanks
  /\ pc' = "done"
  /\ UNCHANGED <<ti, key_pressure, assigned, swapLists>>
  /\ SwapFrame

SwapInit ==
  /\ pc = "partition"
  /\ now = 0
  /\ plumbing_state \in PlumbingState
  /\ temp_thresh_reached = FALSE
  /\ currently_sampling = FALSE
  /\ time_last_sampled = 0
  /\ valve = [v \in ValveNames |-> "CLOSED"]
  /\ SampleUpwardsIdle
  /\ UnitsIdle
  /\ lp_reads = NoReads
  /\ ti = 1
  /\ tanks \in [Tanks -> SwapTankStates]
  /\ tank_pressure = [t \in Tanks |-> NONE]
  /\ key_pressure = [t \in Tanks |-> NONE]
  /\ ref_manifold_pressure = NONE
  /\ new_manifold_pressure = NONE
  /\ manifold_presence = NONE
  /\ ready_tanks = Identity(NumTanks)
  /\ last_resort_tanks = <<>>
  /\ not_ready_tanks = <<>>
  /\ assigned = [c \in Tanks |-> 0]

SwapNext ==
  \/ SwapPartition
  \/ SwapSort
  \/ SwapAssign
  \/ SwapFinish

SwapSpec == SwapInit /\ [][SwapNext]_vars

(***************************************************************************)
(* Properties of SwapTanks                                                 *)
(***************************************************************************)
\* the tanks in a given state, in the order of the tank list
RECURSIVE TanksIn(_, _)
TanksIn(state, n) ==
  IF n = 0 THEN <<>>
  ELSE IF tanks[n] = state THEN Append(TanksIn(state, n - 1), n)
       ELSE TanksIn(state, n - 1)

\* t is the k-th of the READY tanks in ascending order of the sort key
KthReady(t, k) ==
  /\ tanks[t] = "READY"
  /\ Cardinality({u \in Tanks : tanks[u] = "READY" /\ key_pressure[u] < key_pressure[t]}) < k
  /\ Cardinality({u \in Tanks : tanks[u] = "READY" /\ key_pressure[u] <= key_pressure[t]}) >= k

\* C14: after SwapTanks.run(), with L LAST_RESORT and R READY tanks, collection i
\* holds the i-th LAST_RESORT tank if i <= L, else the (i-L)-th READY tank in
\* ascending pressure order if i-L <= R, else a tank that is neither
C14_PriorityLaw ==
  pc = "done" =>
    LET last_resort == TanksIn("LAST_RESORT", NumTanks)
        L == Len(last_resort)
        R == Len(TanksIn("READY", NumTanks))
    IN  \A i \in Tanks :
          IF i <= L THEN assigned[i] = last_resort[i]
          ELSE IF i - L <= R THEN KthReady(assigned[i], i - L)
          ELSE assigned[i] \in Tanks /\ tanks[assigned[i]] \notin {"READY", "LAST_RESORT"}

(***************************************************************************)
(* InitialPressureCheck.run(): is_ready() and initialize() pass (every      *)
(* collaborator is set), then execute() classifies the tanks, probes the   *)
(* main line and promotes a tank to LAST_RESORT.                           *)
(***************************************************************************)
p_unsafe == 900
p_crit == 1050
\* time the main valve is kept open for the probe (ms)
probe_duration == 2000
\* mission time that passes during one poll of the probe loop (ms)
ProbeTick == 500

\* magnitude of manifold pressure change that means a main line failure (hPa)
manifold_delta_limit == 100

\* values a tank sensor may return to InitialPressureCheck (hPa)
CheckPressures == {SENTINEL, 900, 950, 1100}
\* values a tank's triple_pressure may return as key of min()
PromoteKeys == {100, 500}
\* values the manifold sensor's triple_pressure may return around the probe
ProbePressures == {SENTINEL, 101, 201, 202, 1100}

\* values the manifold sensor's triple_pressure may return when asked if it answers
PresencePressures == {SENTINEL, 101}

\* mutant: the manifold sensor is taken to answer whatever it returns
ManifoldAbsent_Never(p) == FALSE

\* line 92 (else branch): the manifold sensor returns the sentinel
ManifoldAbsent(p) == p = SENTINEL

\* lines 72-90: the state a tank is given from its sensor's answers
Classify(cant_connect, pressure, triple_pressure) ==
  IF cant_connect \/ pressure = SENTINEL THEN "UNREACHABLE"
  ELSE IF triple_pressure > p_crit THEN "CRITICAL"
  ELSE IF triple_pressure > p_unsafe THEN "UNSAFE"
  ELSE "READY"

\* mutant: a post-probe pressure above the critical bound is accepted
ProbeVerdict_DeltaOnly(ref, new) ==
  IF Abs(new - ref) > manifold_delta_limit THEN "MAIN_LINE_FAILURE" ELSE "READY"

\* lines 105-115: the plumbing state decided from the two manifold readings
ProbeVerdict(ref, new) ==
  IF Abs(new - ref) > manifold_delta_limit THEN "MAIN_LINE_FAILURE"
  ELSE IF new > p_crit THEN "MAIN_LINE_FAILURE"
  ELSE "READY"

\* lines 121-124: the plumbing is READY and so is every tank
AllGood == plumbing_state = "READY" /\ \A t \in Tanks : tanks[t] = "READY"

\* lines 127-130
matching_tanks == {t \in Tanks : tanks[t] \in {"UNSAFE", "READY"}}

\* mutant: the tank with the highest pressure is taken
lowest_tank_Highest(key) ==
  CHOOSE t \in matching_tanks :
    \A u \in matching_tanks : key[t] > key[u] \/ (key[t] = key[u] /\ t <= u)

\* lines 134-137: min() returns the first tank of the least key
lowest_tank(key) ==
  CHOOSE t \in matching_tanks :
    \A u \in matching_tanks : key[t] < key[u] \/ (key[t] = key[u] /\ t <= u)

\* mutant: every matching tank is promoted
Promoted_All(key) == matching_tanks

\* the tanks set to LAST_RESORT
Promoted(key) == {lowest_tank(key)}

CheckFrame ==
  UNCHANGED <<result, ci, currently_sampling, tank_state, sampled_count, tank_valve,
              pre_sample_tank_pressure, pre_sample_manifold_pressure,
              post_sample_tank_pressure, post_sample_manifold_pressure,
              pre_t_small_tank_pressure, post_t_small_tank_pressure,
              opened, probes, log, lp_reads, ready_tanks, last_resort_tanks,
              not_ready_tanks, assigned, unitVars>>

\* one iteration of "for tank in self.tanks"
ClassifyTank ==
  /\ pc = "classify"
  /\ ti <= NumTanks
  /\ \E cant_connect \in BOOLEAN, pressure \in CheckPressures,
        triple_pressure \in CheckPressures :
       /\ tanks' = [tanks EXCEPT ![ti] = Classify(cant_connect, pressure, triple_pressure)]
       /\ tank_pressure' = [tank_pressure EXCEPT ![ti] =
                              IF cant_connect \/ pressure = SENTINEL
                                THEN NONE ELSE triple_pressure]
  /\ ti' = ti + 1
  /\ UNCHANGED <<pc, now, plumbing_state, temp_thresh_reached, time_last_sampled,
                 valve, loop_start_time, key_pressure, ref_manifold_pressure,
                 new_manifold_pressure, manifold_presence>>
  /\ CheckFrame

\* the manifold sensor answers: record the reference pressure, open the main valve
StartProbe ==
  /\ pc = "classify"
  /\ ti > NumTanks
  /\ \E present \in PresencePressures, ref \in ProbePressures :
       /\ ~ManifoldAbsent(present)
       /\ manifold_presence' = present
       /\ ref_manifold_pressure' = ref
  /\ valve' = Opened({"main"})
  /\ loop_start_time' = now
  /\ pc' = "probe"
  /\ UNCHANGED <<ti, now, plumbing_state, temp_thresh_reached, time_last_sampled,
                 tanks, tank_pressure, key_pressure, new_manifold_pressure>>
  /\ CheckFrame

\* the manifold sensor returns the sentinel: the plumbing is assumed READY
ManifoldOffline ==
  /\ pc = "classify"
  /\ ti > NumTanks
  /\ \E present \in PresencePressures :
       /\ ManifoldAbsent(present)
       /\ manifold_presence' = present
  /\ plumbing_state' = "READY"
  /\ pc' = "promote"
  /\ UNCHANGED <<ti, now, temp_thresh_reached, time_last_sampled, valve,
                 loop_start_time, tanks, tank_pressure, key_pressure,
                 ref_manifold_pressure, new_manifold_pressure>>
  /\ CheckFrame

\* one iteration of the probe loop
ProbePoll ==
  /\ pc = "probe"
  /\ now < loop_start_time + probe_duration
  /\ LogPressures_poll(ProbeTick)
  /\ UNCHANGED <<pc, ti, plumbing_state, valve, loop_start_time, tanks, tank_pressure,
                 key_pressure, ref_manifold_pressure, new_manifold_pressure,
                 manifold_presence>>
  /\ CheckFrame

\* the probe interval is over: close the main valve, read the manifold and decide
EndProbe ==
  /\ pc = "probe"
  /\ now >= loop_start_time + probe_duration
  /\ valve' = Closed({"main"})
  /\ \E new \in ProbePressures :
       /\ new_manifold_pressure' = new
       /\ plumbing_state' = ProbeVerdict(ref_manifold_pressure, new)
  /\ loop_start_time' = NONE
  /\ pc' = "promote"
  /\ UNCHANGED <<ti, now, temp_thresh_reached, time_last_sampled, tanks,
                 tank_pressure, key_pressure, ref_manifold_pressure, manifold_presence>>
  /\ CheckFrame

\* lines 121-138, then cleanup() and run() returns True
Promote ==
  /\ pc = "promote"
  /\ IF AllGood \/ matching_tanks = {}
       THEN UNCHANGED <<tanks, key_pressure>>
       ELSE \E key \in [Tanks -> PromoteKeys] :
              /\ key_pressure' = [t \in Tanks |->
                                    IF t \in matching_tanks THEN key[t] ELSE NONE]
              /\ tanks' = [t \in Tanks |->
                             IF t \in Promoted(key) THEN "LAST_RESORT" ELSE tanks[t]]
  /\ pc' = "done"
  /\ UNCHANGED <<ti, now, plumbing_state, temp_thresh_reached, time_last_sampled,
                 valve, loop_start_time, tank_pressure, ref_manifold_pressure,
                 new_manifold_pressure, manifold_presence>>
  /\ CheckFrame

CheckInit ==
  /\ pc = "classify"
  /\ now = 0
  /\ plumbing_state \in PlumbingState
  /\ temp_thresh_reached = FALSE
  /\ currently_sampling = FALSE
  /\ time_last_sampled = 0
  /\ valve = [v \in ValveNames |-> "CLOSED"]
  /\ SampleUpwardsIdle
  /\ StageIdle
  /\ UnitsIdle

CheckNext ==
  \/ ClassifyTank
  \/ StartProbe
  \/ ManifoldOffline
  \/ ProbePoll
  \/ EndProbe
  \/ Promote

CheckSpec == CheckInit /\ [][CheckNext]_vars

(***************************************************************************)
(* Properties of InitialPressureCheck                                      *)
(***************************************************************************)
\* the tanks the classification loop has dealt with
Classified == IF pc = "classify" THEN 1..(ti - 1) ELSE Tanks

\* the four states the classification hands out
ClassStates == {"UNREACHABLE", "CRITICAL", "UNSAFE", "READY"}

\* C15: a tank is UNREACHABLE if its sensor is not ready or returns the sentinel;
\* otherwise CRITICAL above 1050 hPa, UNSAFE above 900 hPa, else READY; and a tank
\* whose classifying reading is the sentinel is never READY
C15_Classification ==
  pc # "done" =>
    \A t \in Classified :
      /\ tanks[t] = (IF tank_pressure[t] = NONE THEN "UNREACHABLE"
                     ELSE IF tank_pressure[t] > p_crit THEN "CRITICAL"
                     ELSE IF tank_pressure[t] > p_unsafe THEN "UNSAFE"
                     ELSE "READY")
      /\ tank_pressure[t] = SENTINEL => tanks[t] # "READY"

\* C16: every tank the classification has dealt with holds exactly one of the four
\* classification states, none is left UNKNOWN, and when run() has returned every
\* tank holds one of them or LAST_RESORT and at most one tank is LAST_RESORT
C16_Totality ==
  /\ pc # "done" => \A t \in Classified : tanks[t] \in ClassStates
  /\ pc = "done" =>
       /\ \A t \in Tanks : tanks[t] \in ClassStates \cup {"LAST_RESORT"}
       /\ Cardinality({t \in Tanks : tanks[t] = "LAST_RESORT"}) <= 1

\* run() has returned with one tank promoted while another one could have been
C16_Witness ==
  /\ pc = "done"
  /\ Cardinality({t \in Tanks : tanks[t] = "LAST_RESORT"}) = 1
  /\ \E t \in Tanks : tanks[t] \in {"UNSAFE", "READY"}
  /\ \E t \in Tanks : tanks[t] = "UNREACHABLE"

\* the promotion step sets exactly the lowest matching tank to LAST_RESORT
PromotesLowest ==
  \E t \in matching_tanks :
    /\ tanks' = [tanks EXCEPT ![t] = "LAST_RESORT"]
    /\ \A u \in matching_tanks : key_pressure'[t] <= key_pressure'[u]

\* the condition of the promotion as the specification words it
PromotionCalled ==
  \/ plumbing_state = "MAIN_LINE_FAILURE"
  \/ plumbing_state = "READY" /\ \E t \in Tanks : tanks[t] # "READY"

C18_NoPromotionWithReadyTank ==
  [][ (pc = "promote" /\ plumbing_state = "READY" /\ \E t \in Tanks : tanks[t] = "READY")
        => tanks' = tanks ]_vars

\* the probe took both manifold readings
Probed == pc \in {"promote", "done"} /\ new_manifold_pressure # NONE

C20_SentinelNotCounted ==
  (Probed /\ (ref_manifold_pressure = SENTINEL \/ new_manifold_pressure = SENTINEL))
    => plumbing_state = "READY"

\* C21: when the manifold sensor returns the sentinel at the start of the plumbing
\* check, the plumbing state is READY from then on, no reference pressure is taken
\* and no step of the run changes the level of the main valve, which stays CLOSED
C21_AbsentManifoldNoProbe ==
  [][ manifold_presence' = SENTINEL =>
        /\ plumbing_state' = "READY"
        /\ valve'["main"] = valve["main"]
        /\ valve'["main"] = "CLOSED"
        /\ ref_manifold_pressure' = NONE
        /\ pc' \notin {"probe"} ]_vars

\* the run has returned without a probe and has promoted a tank
C21_Witness ==
  /\ pc = "done"
  /\ manifold_presence = SENTINEL
  /\ plumbing_state = "READY"
  /\ ref_manifold_pressure = NONE
  /\ valve["main"] = "CLOSED"
  /\ \E t \in Tanks : tanks[t] = "LAST_RESORT"

(***************************************************************************)
(* Properties of SampleUpwards: the second attempt                         *)
(***************************************************************************)
\* the second try of the current collection has just missed the target
SecondTryMissed ==
  /\ SampleOver
  /\ sampled_count[ci] = 2
  /\ post_sample_tank_pressure' * 100 < 95 * up_final_stagnation_pressure[ci]

\* C22: when the second sampling attempt of a collection misses 95% of the target,
\* the tank is set to FAILED_SAMPLE in that step: the manifold is not re-read and no
\* diagnosis is logged, the plumbing state is kept, no t_small probe is started and
\* no third attempt is made, whatever the change of the tank pressure was
C22_SecondMissFails ==
  [][ /\ SecondTryMissed =>
           /\ tank_state' = [tank_state EXCEPT ![ci] = "FAILED_SAMPLE"]
           /\ Stops
           /\ post_sample_manifold_pressure' = post_sample_manifold_pressure
           /\ plumbing_state' = plumbing_state
           /\ log'[ci] \cap {"main_line_failure", "valve_failed"} = {}
           /\ pre_t_small_tank_pressure' = pre_t_small_tank_pressure
      /\ NotRetried ]_vars

\* the second attempt raised the tank pressure by 100 hPa and was failed
C22_Witness ==
  /\ pc = "returned"
  /\ sampled_count[ci] = 2
  /\ probes[ci] = 1
  /\ tank_state[ci] = "FAILED_SAMPLE"
  /\ pre_sample_tank_pressure = 100
  /\ post_sample_tank_pressure = 200
  /\ ~temp_thresh_reached
  /\ plumbing_state = "READY"

(***************************************************************************)
(* The mission clock (pi/RTC.py) and the G-switch callback (pi/utils.py).   *)
(* The clock object is called from the main loop while the system time     *)
(* advances; the callback runs once, when the G-switch closes.             *)
(***************************************************************************)
\* instants of the system clock the environment may move to
Instants == {Boot + d : d \in {0, 5000, 5001, 59999, 60000, 185000, 185001}}
\* ((tm_min * 60) + tm_sec) * 1000 of the DS3231 at construction
RtcElapsed == {0, 60000}
\* start_time_ms an RTCFile may be constructed with
FileStarts == {Boot, Boot + 180000}
\* arguments setEstT0 may be called with from outside the callback
EstT0s == {Boot + 5000, Boot + 60000}

\* "Only accept between T-120s and T+5s"
window_early == -120000
window_late == 5000

\* Process.can_log(): the printer, the output log and the RTC are set
can_log == TRUE

isReady(r) == r.ready

\* RTCWrappedSensor answers from ref while it is not ready; RTCFile always from t0
getT0MS(r) ==
  IF r.class = "RTCWrappedSensor" /\ ~r.ready THEN r.ref ELSE r.t0

\* mutant: the difference is taken the other way round
getTPlusMS_Reversed(r, t) ==
  IF r.class = "RTCWrappedSensor" /\ ~r.ready THEN r.ref - t ELSE r.t0 - t

\* t is round(time.time()*1000)
getTPlusMS(r, t) ==
  IF r.class = "RTCWrappedSensor" /\ ~r.ready THEN t - r.ref ELSE t - r.t0

\* "prior_t0 = self.t0" raises AttributeError when t0 was never assigned
setEstT0_raises(r) == "t0" \notin DOMAIN r

\* the attributes after setEstT0(ref): RTCWrappedSensor sets ref and t0, RTCFile t0
setEstT0_attrs(r, ref) ==
  IF r.class = "RTCWrappedSensor" THEN [r EXCEPT !.ref = ref, !.t0 = ref]
  ELSE [r EXCEPT !.t0 = ref]

\* "return self.t0 - prior_t0"
setEstT0_ret(r, ref) == ref - r.t0

\* negation of the test of line 89
InWindow(estimated_diff_ms) ==
  ~(estimated_diff_ms < window_early \/ estimated_diff_ms > window_late)

\* state of the processes, which the clock does not touch
processVars == <<pc, now, plumbing_state, temp_thresh_reached, currently_sampling,
                 time_last_sampled, valve, suVars, lp_reads, ti, tanks, tank_pressure,
                 key_pressure, ref_manifold_pressure, new_manifold_pressure,
                 manifold_presence, swapLists, assigned>>

RTCFrame == UNCHANGED <<processVars, fileVars, ventVars, cfgVars>>

\* the system clock advances
TimePasses ==
  /\ pc = "rtc"
  /\ \E t \in Instants : t > time_ms /\ time_ms' = t
  /\ UNCHANGED <<rtc, rtc_call, gswitch_armed, event_log, t_plus_seen, last_est>>
  /\ RTCFrame

CallIsReady ==
  /\ pc = "rtc"
  /\ rtc_call' = [op |-> "isReady", ready |-> isReady(rtc)]
  /\ UNCHANGED <<time_ms, rtc, gswitch_armed, event_log, t_plus_seen, last_est>>
  /\ RTCFrame

CallGetT0MS ==
  /\ pc = "rtc"
  /\ rtc_call' = [op |-> "getT0MS", ret |-> getT0MS(rtc)]
  /\ UNCHANGED <<time_ms, rtc, gswitch_armed, event_log, t_plus_seen, last_est>>
  /\ RTCFrame

CallGetTPlusMS ==
  /\ pc = "rtc"
  /\ rtc_call' = [op |-> "getTPlusMS", at |-> time_ms, ret |-> getTPlusMS(rtc, time_ms)]
  /\ t_plus_seen' = {getTPlusMS(rtc, time_ms)}
  /\ UNCHANGED <<time_ms, rtc, gswitch_armed, event_log, last_est>>
  /\ RTCFrame

\* the effect of rtc.setEstT0(ref) on the clock and on the record of the call
SetEstT0(ref) ==
  /\ last_est' = {ref}
  /\ IF setEstT0_raises(rtc)
       THEN /\ rtc_call' = [op |-> "setEstT0", arg |-> ref, raised |-> "AttributeError"]
            /\ UNCHANGED <<rtc, t_plus_seen>>
       ELSE /\ rtc' = setEstT0_attrs(rtc, ref)
            /\ rtc_call' = [op |-> "setEstT0", arg |-> ref, prior_t0 |-> rtc.t0,
                            ret |-> setEstT0_ret(rtc, ref)]
            /\ t_plus_seen' = {}

CallSetEstT0 ==
  /\ pc = "rtc"
  /\ \E ref \in EstT0s : SetEstT0(ref)
  /\ UNCHANGED <<time_ms, gswitch_armed, event_log>>
  /\ RTCFrame

\* utils.gswitch_callback: the event detection is removed, so it runs once.  If
\* setEstT0 raises, the exception leaves the callback and nothing is logged.
gswitch_callback ==
  /\ pc = "rtc"
  /\ gswitch_armed
  /\ gswitch_armed' = FALSE
  /\ LET t0 == time_ms
         prior_t0 == getT0MS(rtc)
         estimated_diff_ms == t0 - prior_t0
     IN  IF ~InWindow(estimated_diff_ms)
           THEN /\ event_log' = IF can_log
                                  THEN Append(event_log, [event |-> "ignored",
                                                          difference |-> estimated_diff_ms])
                                  ELSE event_log
                /\ rtc_call' = [op |-> "getTPlusMS", at |-> time_ms,
                                ret |-> getTPlusMS(rtc, time_ms)]
                /\ t_plus_seen' = {getTPlusMS(rtc, time_ms)}
                /\ UNCHANGED <<rtc, last_est>>
           ELSE /\ \/ /\ setEstT0_raises(rtc)
                      /\ SetEstT0(t0)
                      /\ UNCHANGED event_log
                   \/ /\ ~setEstT0_raises(rtc)
                      /\ rtc' = setEstT0_attrs(rtc, t0)
                      /\ last_est' = {t0}
                      /\ event_log' = IF can_log
                                        THEN Append(event_log,
                                                    [event |-> "applied",
                                                     difference |-> setEstT0_ret(rtc, t0)])
                                        ELSE event_log
                      /\ rtc_call' = [op |-> "getTPlusMS", at |-> time_ms,
                                      ret |-> getTPlusMS(setEstT0_attrs(rtc, t0), time_ms)]
                      /\ t_plus_seen' = {getTPlusMS(setEstT0_attrs(rtc, t0), time_ms)}
  /\ UNCHANGED time_ms
  /\ RTCFrame

RTCInit ==
  /\ pc = "rtc"
  /\ now = 0
  /\ plumbing_state = "READY"
  /\ temp_thresh_reached = FALSE
  /\ currently_sampling = FALSE
  /\ time_last_sampled = 0
  /\ valve = [v \in ValveNames |-> "CLOSED"]
  /\ SampleUpwardsIdle
  /\ StageIdle
  /\ rtc \in {RTCWrappedSensor_init(TRUE, e) : e \in RtcElapsed}
             \cup {RTCWrappedSensor_init(FALSE, 0)}
             \cup {RTCFile_init(start) : start \in FileStarts}
  /\ RTCIdle
  /\ FileIdle
  /\ VentIdle
  /\ ConfigIdle

RTCNext ==
  \/ TimePasses
  \/ CallIsReady
  \/ CallGetT0MS
  \/ CallGetTPlusMS
  \/ CallSetEstT0
  \/ gswitch_callback

RTCSpec == RTCInit /\ [][RTCNext]_vars

(***************************************************************************)
(* Properties of the mission clock                                         *)
(***************************************************************************)
\* the step is the run of the G-switch callback
CallbackStep == gswitch_armed /\ ~gswitch_armed'

\* C23: the callback applies the correction exactly when the trigger timestamp
\* minus the current t0 lies within -120000 ms .. +5000 ms: then t0 becomes the
\* trigger timestamp; outside the window the clock is unchanged (t0 and with it
\* every later T+ reading) and an ignore event is logged
C23_AcceptanceWindow ==
  [][ CallbackStep =>
        LET offset == time_ms - getT0MS(rtc)
        IN  IF -120000 <= offset /\ offset <= 5000
              THEN /\ getT0MS(rtc') = time_ms
                   /\ getTPlusMS(rtc', time_ms) = 0
                   /\ \A i \in 1..Len(event_log') : event_log'[i].event # "ignored"
              ELSE /\ rtc' = rtc
                   /\ event_log' = <<[event |-> "ignored", difference |-> offset]>>
    ]_vars

\* C24: a call setEstT0(new_t0) returns new_t0 minus the old t0, and from then on
\* getT0MS() is new_t0 and getTPlusMS() is the system time minus new_t0
C24_SetEstT0Replaces ==
  /\ rtc_call.op = "setEstT0" =>
        /\ "raised" \notin DOMAIN rtc_call
        /\ rtc_call.ret = rtc_call.arg - rtc_call.prior_t0
  /\ \A new_t0 \in last_est :
        /\ getT0MS(rtc) = new_t0
        /\ getTPlusMS(rtc, time_ms) = time_ms - new_t0
        /\ rtc_call.op = "getT0MS" => rtc_call.ret = new_t0
        /\ rtc_call.op = "getTPlusMS" => rtc_call.ret = rtc_call.at - new_t0

\* the clock was constructed without an answer of the DS3231
NotReadyClock == rtc.class = "RTCWrappedSensor" /\ ~rtc.ready

\* C25: a clock whose hardware RTC could not be read at construction is not ready
\* and answers isReady, getT0MS, getTPlusMS and setEstT0 from its estimate of t0,
\* the boot time or the last setEstT0 argument, without raising
C25_NotReadyAnswers ==
  NotReadyClock =>
    LET estimate == IF last_est = {} THEN Boot ELSE CHOOSE e \in last_est : TRUE
    IN  /\ "raised" \notin DOMAIN rtc_call
        /\ rtc_call.op = "isReady" => rtc_call.ready = FALSE
        /\ rtc_call.op = "getT0MS" => rtc_call.ret = estimate
        /\ rtc_call.op = "getTPlusMS" => rtc_call.ret = rtc_call.at - estimate
        /\ rtc_call.op = "setEstT0" => getT0MS(rtc) = rtc_call.arg

\* C26: while the system time does not go back, a getTPlusMS() reading is never
\* below the reading before it, as long as no setEstT0 correction lies between the
\* two; this holds before and after a correction, for ready and not-ready clocks
C26_MonotonicTPlus ==
  [][ (time_ms' >= time_ms /\ rtc' = rtc) =>
        \A before \in t_plus_seen : \A after \in t_plus_seen' : after >= before ]_vars

\* a ready clock was corrected and then read while the time went on
C26_Witness ==
  /\ rtc.class = "RTCWrappedSensor"
  /\ rtc.ready
  /\ last_est = {rtc.t0}
  /\ rtc_call.op = "getTPlusMS"
  /\ rtc_call.ret > 0
  /\ rtc_call.at = time_ms
  /\ t_plus_seen = {time_ms - rtc.t0}

(***************************************************************************)
(* Pressure sensors (pi/MPRLS.py).  MPRLSFile plays recorded readings back  *)
(* from a list; NovaPressureSensor reads the hardware.  Both take three    *)
(* single readings for triple_pressure.                                    *)
(***************************************************************************)
\* greatest number of readings in the file of an MPRLSFile
MaxReadings == 3
\* values a single reading may have (hPa; -1 is the sentinel)
RawPressures == {SENTINEL, 100, 200, 300}

\* statistics.median of a non-empty list: the middle value, or the mean of the two
\* middle values (the valid readings are even numbers, so the mean is whole)
median(values) ==
  LET sorted == SortSeq(values, LAMBDA a, b : a < b)
      n == Len(sorted)
  IN  IF n % 2 = 1 THEN sorted[(n + 1) \div 2]
      ELSE (sorted[n \div 2] + sorted[n \div 2 + 1]) \div 2

\* [p for p in pressures if p != -1]
Valid(pressures) == SelectSeq(pressures, LAMBDA p : p # SENTINEL)

\* MPRLSFile.pressure with the index at i: -1 without data and on IndexError
file_pressure(d, i) ==
  IF d = <<>> THEN SENTINEL
  ELSE IF i >= Len(d) THEN SENTINEL
  ELSE d[i + 1]

\* mutant: the index is advanced by a read past the end, too
next_index_Always(d, i) == i + 1

\* the index after MPRLSFile.pressure: advanced only when a value was read
next_index(d, i) ==
  IF d # <<>> /\ i < Len(d) THEN i + 1 ELSE i

\* "[self.pressure for _ in range(3)]": the three readings and the index after them
file_three(d, i) ==
  LET i1 == next_index(d, i)
      i2 == next_index(d, i1)
      i3 == next_index(d, i2)
  IN  [pressures |-> <<file_pressure(d, i), file_pressure(d, i1), file_pressure(d, i2)>>,
       index |-> IF d = <<>> THEN i ELSE i3]

\* mutant: the median is taken over all three readings, sentinels included
file_triple_pressure_OfAll(pressures) == median(pressures)

\* MPRLSFile.triple_pressure from its three readings
file_triple_pressure(pressures) ==
  IF Valid(pressures) = <<>> THEN SENTINEL ELSE median(Valid(pressures))

\* max(pressures)
MaxOf(pressures) ==
  CHOOSE m \in {pressures[i] : i \in DOMAIN pressures} :
    \A i \in DOMAIN pressures : pressures[i] <= m

\* NovaPressureSensor.triple_pressure from its three readings
nova_triple_pressure(pressures) ==
  IF MaxOf(pressures) # SENTINEL THEN median(Valid(pressures)) ELSE SENTINEL

SensorFrame == UNCHANGED <<processVars, rtcVars, ventVars, cfgVars>>

\* MPRLSFile.pressure
ReadPressure ==
  /\ pc = "sensor"
  /\ sensor_call' = [op |-> "pressure", sensor |-> "MPRLSFile", before |-> index,
                     ret |-> file_pressure(data, index)]
  /\ index' = next_index(data, index)
  /\ UNCHANGED data
  /\ SensorFrame

\* MPRLSFile.triple_pressure
ReadTriplePressure ==
  /\ pc = "sensor"
  /\ sensor_call' = [op |-> "triple_pressure", sensor |-> "MPRLSFile", before |-> index,
                     raw |-> file_three(data, index).pressures,
                     ret |-> file_triple_pressure(file_three(data, index).pressures)]
  /\ index' = file_three(data, index).index
  /\ UNCHANGED data
  /\ SensorFrame

\* NovaPressureSensor.triple_pressure: the three readings come from the hardware
NovaTriplePressure ==
  /\ pc = "sensor"
  /\ \E pressures \in [1..3 -> RawPressures] :
       sensor_call' = [op |-> "triple_pressure", sensor |-> "NovaPressureSensor",
                       before |-> index, raw |-> pressures,
                       ret |-> nova_triple_pressure(pressures)]
  /\ UNCHANGED <<data, index>>
  /\ SensorFrame

SensorInit ==
  /\ pc = "sensor"
  /\ now = 0
  /\ plumbing_state = "READY"
  /\ temp_thresh_reached = FALSE
  /\ currently_sampling = FALSE
  /\ time_last_sampled = 0
  /\ valve = [v \in ValveNames |-> "CLOSED"]
  /\ SampleUpwardsIdle
  /\ StageIdle
  /\ rtc = RTCFile_init(Boot)
  /\ RTCIdle
  /\ data \in UNION {[1..n -> RawPressures] : n \in 0..MaxReadings}
  /\ index = 0
  /\ sensor_call = NoCall
  /\ VentIdle
  /\ ConfigIdle

SensorNext ==
  \/ ReadPressure
  \/ ReadTriplePressure
  \/ NovaTriplePressure

SensorSpec == SensorInit /\ [][SensorNext]_vars

(***************************************************************************)
(* Properties of the pressure sensors                                      *)
(***************************************************************************)
\* the last read was a triple_pressure
TripleRead == sensor_call.op = "triple_pressure"

\* the raw samples of the last triple read that are not the sentinel
ValidSamples == {i \in 1..3 : sensor_call.raw[i] # SENTINEL}

\* the median of the valid samples: the middle one of three, the mean of two, the
\* only one
MedianOfValid ==
  LET raw == sensor_call.raw
  IN  IF Cardinality(ValidSamples) = 3
        THEN CHOOSE v \in {raw[i] : i \in 1..3} :
               /\ Cardinality({i \in 1..3 : raw[i] <= v}) >= 2
               /\ Cardinality({i \in 1..3 : raw[i] >= v}) >= 2
      ELSE IF Cardinality(ValidSamples) = 2
        THEN CHOOSE v \in 0..300 :
               2 * v = raw[CHOOSE i \in ValidSamples : \A j \in ValidSamples : i <= j]
                       + raw[CHOOSE i \in ValidSamples : \A j \in ValidSamples : i >= j]
      ELSE raw[CHOOSE i \in ValidSamples : TRUE]

\* C27 as stated: the triple value is the median of the valid samples when at most
\* one of the three raw samples is the sentinel, and the sentinel when two or more are
C27_MedianOrSentinel ==
  TripleRead =>
    IF Cardinality(ValidSamples) >= 2 THEN sensor_call.ret = MedianOfValid
    ELSE sensor_call.ret = SENTINEL

\* C27 with the case of a single valid sample: the triple value is the median of the
\* valid samples whenever one of the three raw samples is valid (the sample itself
\* when it is the only one), and the sentinel only when all three are the sentinel
C27_MedianOfValid ==
  TripleRead =>
    IF ValidSamples # {} THEN sensor_call.ret = MedianOfValid
    ELSE sensor_call.ret = SENTINEL

\* two samples of a triple read of the file-backed sensor were lost and the third
\* one was returned
C27_Witness ==
  /\ TripleRead
  /\ sensor_call.sensor = "MPRLSFile"
  /\ sensor_call.raw = <<SENTINEL, 300, SENTINEL>>
  /\ sensor_call.ret = 300

\* the recorded readings are exhausted
Exhausted == index >= Len(data)

\* the step is a triple_pressure read of the file-backed sensor
FileTripleStep ==
  /\ sensor_call'.op = "triple_pressure"
  /\ sensor_call'.sensor = "MPRLSFile"
  /\ sensor_call' # sensor_call \/ index' # index

\* C28 as stated: a read of the exhausted file returns the sentinel, and every
\* triple_pressure call moves the read position on by exactly 3, also at or past
\* the end of the readings
C28_ThreePositions ==
  [][ /\ (Exhausted /\ sensor_call' # sensor_call /\ sensor_call'.sensor = "MPRLSFile")
          => sensor_call'.ret = SENTINEL
      /\ FileTripleStep => index' = index + 3 ]_vars

\* C28 with the read position as the code keeps it: a read of the exhausted file
\* returns the sentinel and leaves the position where it is; a triple_pressure call
\* takes the next 3 positions, the sentinel standing for those past the end, and
\* moves the position on by 3 or to the end of the readings, whichever is less
C28_UpToThreePositions ==
  [][ /\ (Exhausted /\ sensor_call' # sensor_call /\ sensor_call'.sensor = "MPRLSFile")
          => (sensor_call'.ret = SENTINEL /\ index' = index)
      /\ FileTripleStep =>
           /\ index' = (IF index + 3 <= Len(data) THEN index + 3 ELSE Len(data))
           /\ \A k \in 1..3 :
                sensor_call'.raw[k] = (IF index + k <= Len(data) THEN data[index + k]
                                       ELSE SENTINEL)
      /\ index' <= Len(data) ]_vars

\* a triple read met the end of the readings after two of them
C28_Witness ==
  /\ TripleRead
  /\ sensor_call.sensor = "MPRLSFile"
  /\ Len(data) = 3
  /\ sensor_call.before = 1
  /\ index = 3
  /\ sensor_call.raw[3] = SENTINEL
  /\ sensor_call.raw[1] # SENTINEL

(***************************************************************************)
(* VentHotAir.run(): is_ready() and initialize() pass (every collaborator  *)
(* is set; all_valves holds every valve of the payload), then execute()    *)
(* closes the valves, opens the vent path and polls the DPV temperature.   *)
(***************************************************************************)
t_VENT == 5000
T_VENT_TARGET == 380
TEMP_CHANGE_THRESHOLD == 5
TEMP_COMPARISON_INTERVAL == 500
OLD_DATA_BUFFER_TIME == 250

\* mission time that passes during one poll of the vent loop (ms)
VentTick == 125
\* values the DPV sensor's triple_temperature may return in the vent loop (Kelvin)
VentTemperatures == {SENTINEL, 379, 380, 383}

\* mutant: the loop condition lets one more poll in
VentRunning_Late(vent_start_time) == now < vent_start_time + t_VENT + VentTick

\* line 112: the loop condition
VentRunning(vent_start_time) == now < vent_start_time + t_VENT

\* mutant: the sentinel passes for a temperature
InvalidTemp_Never(current_dpv_temp) == FALSE

\* line 116: an invalid reading
InvalidTemp(current_dpv_temp) == current_dpv_temp <= 0

\* line 119: the target is met
BelowTarget(current_dpv_temp) == current_dpv_temp < T_VENT_TARGET

\* mutant: the old readings are never removed
Recent_Keep(history, current_time) == history

\* lines 128-129: the history without the readings much older than the interval
Recent(history, current_time) ==
  SelectSeq(history,
            LAMBDA e : e[2] > current_time - TEMP_COMPARISON_INTERVAL - OLD_DATA_BUFFER_TIME)

\* lines 132-133: the readings of the history that are at least the interval old
temporary_temperature_hist(history, current_time) ==
  SelectSeq(history, LAMBDA e : e[2] <= current_time - TEMP_COMPARISON_INTERVAL)

\* lines 140-144: temp_change_rate > TEMP_CHANGE_THRESHOLD, with the rate in Kelvin
\* per second taken against the last of the old readings (its age is not zero)
Rising(current_dpv_temp, current_time, old) ==
  (current_dpv_temp - old[1]) * 1000 > TEMP_CHANGE_THRESHOLD * (current_time - old[2])

\* mutant: the static valve is left as it is after the loop
VentClosed_MainOnly == Closed({"main"})

\* lines 149-150
VentClosed == Closed({"main", "static"})

VentFrame ==
  UNCHANGED <<ci, tank_state, sampled_count, plumbing_state, currently_sampling,
              pre_sample_tank_pressure, pre_sample_manifold_pressure,
              post_sample_tank_pressure, post_sample_manifold_pressure,
              pre_t_small_tank_pressure, post_t_small_tank_pressure,
              opened, probes, log, lp_reads, ti, tanks, tank_pressure, key_pressure,
              ref_manifold_pressure, new_manifold_pressure, manifold_presence,
              swapLists, assigned, rtcVars, fileVars, cfgVars>>

\* lines 102-105: "for valve in self.all_valves: valve.close()"
CloseAllValves ==
  /\ pc = "vent_start"
  /\ valve' = [v \in ValveNames |-> "CLOSED"]
  /\ tank_valve' = [c \in Collections |-> "CLOSED"]
  /\ pc' = "vent_open"
  /\ UNCHANGED <<result, now, temp_thresh_reached, time_last_sampled, loop_start_time,
                 temp_history, vent_exit, vent_read>>
  /\ VentFrame

\* lines 107-111: open the main and the static valve, take the start time
OpenVentPath ==
  /\ pc = "vent_open"
  /\ valve' = Opened({"main", "static"})
  /\ loop_start_time' = now
  /\ pc' = "vent"
  /\ UNCHANGED <<result, now, temp_thresh_reached, time_last_sampled, tank_valve,
                 temp_history, vent_exit, vent_read>>
  /\ VentFrame

\* one iteration of the vent loop
VentPoll ==
  /\ pc = "vent"
  /\ VentRunning(loop_start_time)
  /\ LogPressures_poll(VentTick)
  /\ \E current_dpv_temp \in VentTemperatures :
       LET current_time == now'
           history == Recent(Append(temp_history, <<current_dpv_temp, current_time>>),
                             current_time)
           old == temporary_temperature_hist(history, current_time)
       IN  IF InvalidTemp(current_dpv_temp)
             THEN UNCHANGED <<pc, temp_history, vent_exit, vent_read>>
           ELSE IF BelowTarget(current_dpv_temp)
             THEN /\ pc' = "vent_close"
                  /\ vent_exit' = "target"
                  \* the sensor's temperature property is not read; it would have given
                  \* any of the values
                  /\ \E temperature \in VentTemperatures :
                       vent_read' = [temperature |-> temperature,
                                     triple_temperature |-> current_dpv_temp]
                  /\ UNCHANGED temp_history
           ELSE /\ temp_history' = history
                /\ UNCHANGED vent_read
                /\ IF Len(old) >= 2 /\ Rising(current_dpv_temp, current_time, old[Len(old)])
                     THEN pc' = "vent_close" /\ vent_exit' = "rate"
                     ELSE UNCHANGED <<pc, vent_exit>>
  /\ UNCHANGED <<result, valve, tank_valve, loop_start_time>>
  /\ VentFrame

\* the loop condition fails: t_VENT has passed
VentCeiling ==
  /\ pc = "vent"
  /\ ~VentRunning(loop_start_time)
  /\ pc' = "vent_close"
  /\ vent_exit' = "ceiling"
  /\ UNCHANGED vent_read
  /\ UNCHANGED <<result, now, temp_thresh_reached, time_last_sampled, valve, tank_valve,
                 loop_start_time, temp_history>>
  /\ VentFrame

\* lines 149-151, then cleanup() and run() returns True
CloseVentPath ==
  /\ pc = "vent_close"
  /\ valve' = VentClosed
  /\ pc' = "done"
  /\ result' = "True"
  /\ UNCHANGED <<now, temp_thresh_reached, time_last_sampled, tank_valve,
                 loop_start_time, temp_history, vent_exit, vent_read>>
  /\ VentFrame

\* VentHotAir runs after SampleUpwards, which may have left valves open; here it
\* runs after a thermal abort (the flag is set and LogPressures only records the
\* pressures), the flag not being read by execute()
VentInit ==
  /\ pc = "vent_start"
  /\ result = "none"
  /\ now = 0
  /\ plumbing_state = "READY"
  /\ temp_thresh_reached = TRUE
  /\ currently_sampling = FALSE
  /\ time_last_sampled = 0
  /\ valve \in [ValveNames -> {"OPEN", "CLOSED"}]
  /\ tank_valve \in [Collections -> {"OPEN", "CLOSED"}]
  /\ ci = 1
  /\ tank_state = [c \in Collections |-> "UNKNOWN"]
  /\ sampled_count = [c \in Collections |-> 0]
  /\ loop_start_time = NONE
  /\ pre_sample_tank_pressure = NONE
  /\ pre_sample_manifold_pressure = NONE
  /\ post_sample_tank_pressure = NONE
  /\ post_sample_manifold_pressure = NONE
  /\ pre_t_small_tank_pressure = NONE
  /\ post_t_small_tank_pressure = NONE
  /\ opened = [c \in Collections |-> {}]
  /\ probes = [c \in Collections |-> 0]
  /\ log = [c \in Collections |-> {}]
  /\ StageIdle
  /\ UnitsIdle

VentNext ==
  \/ CloseAllValves
  \/ OpenVentPath
  \/ VentPoll
  \/ VentCeiling
  \/ CloseVentPath

VentSpec == VentInit /\ [][VentNext]_vars

\* every valve of the payload is closed
EveryValveClosed ==
  /\ \A v \in ValveNames : valve[v] = "CLOSED"
  /\ \A c \in Collections : tank_valve[c] = "CLOSED"

\* C29: VentHotAir first closes every valve, then opens only main and static, and
\* on every exit path of the vent loop (ceiling, temperature below target,
\* rate-of-rise abort) closes them again: every valve is closed when run() has
\* returned True
C29_VentValves ==
  /\ pc = "vent_open" => EveryValveClosed
  /\ pc \in {"vent", "vent_close"} =>
       /\ \A v \in ValveNames : valve[v] = "OPEN" <=> v \in {"main", "static"}
       /\ \A c \in Collections : tank_valve[c] = "CLOSED"
  /\ pc = "vent_close" => vent_exit \in {"ceiling", "target", "rate"}
  /\ pc = "done" => result = "True" /\ EveryValveClosed

\* the vent has returned True after a rate-of-rise abort
C29_Witness ==
  /\ pc = "done"
  /\ result = "True"
  /\ vent_exit = "rate"
  /\ EveryValveClosed

\* C30: the vent loop ends no later than the first poll at which mission time has
\* advanced by t_VENT past the vent start, whatever the temperature readings: no
\* iteration begins once the ceiling has passed, and the loop is never found more
\* than one poll past it
C30_VentCeiling ==
  [][ /\ (pc = "vent" /\ now >= loop_start_time + t_VENT) =>
           /\ pc' = "vent_close"
           /\ now' = now
           /\ temp_history' = temp_history
      /\ pc' = "vent" => now' < loop_start_time' + t_VENT + VentTick ]_vars

\* the thermocouple gave only invalid readings and the loop ended at the ceiling
C30_Witness ==
  /\ pc = "vent_close"
  /\ vent_exit = "ceiling"
  /\ temp_history = <<>>
  /\ now >= loop_start_time + t_VENT
  /\ now < loop_start_time + t_VENT + VentTick

\* the reading counts as below the vent target
CountsBelowTarget(t) == t > 0 /\ t < T_VENT_TARGET

\* C31 as stated: venting stops for the target only when the single current reading
\* and the triple-sampled temperature are both below the target, an invalid
\* reading not counting
C31_SingleAndTriple ==
  vent_exit = "target" =>
    /\ CountsBelowTarget(vent_read.temperature)
    /\ CountsBelowTarget(vent_read.triple_temperature)

\* C31 (amended): venting stops for the target only when the triple-sampled
\* temperature is valid and below the target, whatever a single reading would
\* give; no other exit consults the target
C31_TripleBelowTarget ==
  /\ vent_exit = "target" => CountsBelowTarget(vent_read.triple_temperature)
  /\ vent_exit # "target" => vent_read = NoRead

\* venting stopped on a triple-sampled 379 K while a single reading gave 383 K
C31_Witness ==
  /\ pc = "done"
  /\ vent_exit = "target"
  /\ vent_read.triple_temperature = 379
  /\ vent_read.temperature = 383

\* a poll has recorded its reading
Recorded == pc = "vent" /\ temp_history' # temp_history

\* the age of a recorded sample at the poll that has just recorded its reading
AgeOf(e) == now' - e[2]

\* the recorded sample the poll compares its reading with: the latest of those the
\* comparison admits
Compared == LET old == temporary_temperature_hist(temp_history', now')
            IN  old[Len(old)]

\* the poll compares its reading with a recorded sample
Compares == Len(temporary_temperature_hist(temp_history', now')) >= 2

\* the rate against the compared sample exceeds TEMP_CHANGE_THRESHOLD (K/s)
RateExceeded ==
  LET cur == temp_history'[Len(temp_history')]
  IN  (cur[1] - Compared[1]) * 1000 > TEMP_CHANGE_THRESHOLD * AgeOf(Compared)

\* C32 as stated: the rate of rise is computed only against a recorded sample whose
\* age lies strictly beyond the comparison window (500 ms) but within window+buffer
\* (750 ms), and venting is aborted only when that rate exceeds 5 K/s
C32_StrictlyBeyondWindow ==
  [][ Recorded =>
        IF Compares
          THEN /\ AgeOf(Compared) > TEMP_COMPARISON_INTERVAL
               /\ AgeOf(Compared) <= TEMP_COMPARISON_INTERVAL + OLD_DATA_BUFFER_TIME
               /\ vent_exit' = "rate" <=> RateExceeded
          ELSE vent_exit' = "none" ]_vars

\* C32 (amended): the rate of rise is computed only against a recorded sample that
\* is at least the comparison window (500 ms) and less than window+buffer (750 ms)
\* old, the latest of at least two such samples; older samples are no longer
\* recorded, and venting is aborted exactly when that rate exceeds 5 K/s
C32_WindowedRate ==
  [][ Recorded =>
        /\ \A i \in 1..Len(temp_history') :
             AgeOf(temp_history'[i]) < TEMP_COMPARISON_INTERVAL + OLD_DATA_BUFFER_TIME
        /\ IF Compares
             THEN /\ AgeOf(Compared) >= TEMP_COMPARISON_INTERVAL
                  /\ AgeOf(Compared) < TEMP_COMPARISON_INTERVAL + OLD_DATA_BUFFER_TIME
                  /\ \A i \in 1..Len(temp_history') :
                       AgeOf(temp_history'[i]) >= TEMP_COMPARISON_INTERVAL
                         => temp_history'[i][2] <= Compared[2]
                  /\ vent_exit' = "rate" <=> RateExceeded
             ELSE vent_exit' = "none" ]_vars

\* venting was aborted on a rise measured against a sample exactly 500 ms old
C32_Witness ==
  /\ pc = "vent_close"
  /\ vent_exit = "rate"
  /\ Len(temp_history) >= 3
  /\ \E i \in 1..Len(temp_history) :
       /\ temp_history[i][2] = now - TEMP_COMPARISON_INTERVAL
       /\ temp_history[i][1] < temp_history[Len(temp_history)][1]
  /\ temp_history[Len(temp_history)][2] = now

(***************************************************************************)
(* run() of a process that was not given one of its collaborators:         *)
(* Process.is_ready(), then initialize(), then execute(). The execute() of *)
(* a completely configured process is the subject of the specifications    *)
(* above and is not entered here.                                          *)
(***************************************************************************)
Processes == {"InitialPressureCheck", "SwapTanks", "SampleUpwards", "VentHotAir",
              "LogPressures"}

\* the collaborators of the Process class, shared by every process
ClassCollaborators == {"multiprint", "output_log", "rtc", "output_pressures"}

\* the collaborators initialize() of each process asks for
Required(process) ==
  CASE process = "InitialPressureCheck" ->
         {"log_pressures", "tanks", "manifold_pressure", "main_valve"}
    [] process = "SwapTanks" -> {"tanks", "collections"}
    [] process = "SampleUpwards" ->
         {"log_pressures", "collections", "main_valve", "dynamic_valve", "static_valve",
          "manifold_pressure_sensor"}
    [] process = "VentHotAir" ->
         {"log_pressures", "all_valves", "main_valve", "static_valve",
          "dpv_temperature_sensor"}
    [] process = "LogPressures" ->
         {"pressure_temperature_sensors", "dpv_temperature_sensor",
          "canister_pressure_sensor"}

\* what may be wrong with the configuration of a process: one collaborator was never
\* set, or (SwapTanks) the tanks and the collections differ in number
Faults(process) ==
  ClassCollaborators \cup Required(process)
    \cup (IF process = "SwapTanks" THEN {"count_mismatch"} ELSE {})

\* Process.is_ready(): the output log, the printer and the clock are only warned
\* about; for the pressure log the message is written to the missing file itself
IsReadyRaises(unset) == unset = "output_pressures"
IsReady(unset) == unset \notin ClassCollaborators

\* what is_ready() leaves behind before it returns False or raises
IsReadyLog(unset) ==
  {[sink |-> "warning", message |-> unset]}
    \cup (IF unset = "rtc" THEN {[sink |-> "output_log", message |-> unset]} ELSE {})

\* initialize() finds the fault: every test is "not self.x" or "is None" on an
\* attribute that __init__ sets to None, or a comparison of the lengths, but
\* InitialPressureCheck tests "self.tanks is None" and __init__ sets tanks to []
InitializeFinds(process, unset) ==
  /\ unset \in Faults(process) \ ClassCollaborators
  /\ ~(process = "InitialPressureCheck" /\ unset = "tanks")

\* SampleUpwards.initialize refuses to start once the thermal flag is set
RefusesFlag(process) == process = "SampleUpwards" /\ temp_thresh_reached

ConfigFrame ==
  UNCHANGED <<ci, now, tank_state, sampled_count, plumbing_state, temp_thresh_reached,
              currently_sampling, time_last_sampled, valve, tank_valve, locals, opened,
              probes, log, lp_reads, tanks, tank_pressure, key_pressure,
              ref_manifold_pressure, new_manifold_pressure, manifold_presence,
              swapLists, assigned, rtcVars, fileVars, ventVars, config>>

\* run(): "if not Process.is_ready(): ... return False"; can_log() is False
\* whenever is_ready() is, so nothing more is written
CallIsReadyOfProcess ==
  /\ pc = "start"
  /\ IF IsReadyRaises(config.unset)
       THEN /\ pc' = "done"
            /\ result' = "AttributeError"
            /\ run_log' = run_log \cup {[sink |-> "warning", message |-> config.unset]}
       ELSE IF ~IsReady(config.unset)
         THEN /\ pc' = "done"
              /\ result' = "False"
              /\ run_log' = run_log \cup IsReadyLog(config.unset)
         ELSE /\ pc' = "initialize"
              /\ UNCHANGED <<result, run_log>>
  /\ UNCHANGED ti
  /\ ConfigFrame

\* run(): "if not self.initialize(): return False", else execute() is entered; the
\* loop of InitialPressureCheck over an empty tank list is over at once
CallInitialize ==
  /\ pc = "initialize"
  /\ IF InitializeFinds(config.process, config.unset)
       THEN /\ pc' = "done"
            /\ result' = "False"
            /\ run_log' = run_log \cup {[sink |-> "output_log", message |-> config.unset],
                                       [sink |-> "warning", message |-> config.unset]}
            /\ UNCHANGED ti
       ELSE IF RefusesFlag(config.process)
         THEN /\ pc' = "done"
              /\ result' = "False"
              /\ run_log' = run_log \cup {[sink |-> "output_log", message |-> "temp_thresh"],
                                         [sink |-> "warning", message |-> "temp_thresh"]}
              /\ UNCHANGED ti
       ELSE IF config.process = "InitialPressureCheck" /\ config.unset = "tanks"
         THEN /\ pc' = "classify"
              /\ ti' = NumTanks + 1
              /\ UNCHANGED <<result, run_log>>
         ELSE /\ pc' = "execute"
              /\ UNCHANGED <<result, ti, run_log>>
  /\ ConfigFrame

\* InitialPressureCheck.execute, lines 121-129 with an empty tank list: both counts
\* are 0 and there is no matching tank; then cleanup() and run() returns True
PromoteNoTanks ==
  /\ pc = "promote"
  /\ pc' = "done"
  /\ result' = "True"
  /\ UNCHANGED <<ti, run_log>>
  /\ ConfigFrame

\* the payload before run() is called with a collaborator unset, or with none unset
ConfigInit ==
  /\ pc = "start"
  /\ now = 0
  /\ plumbing_state \in PlumbingState
  /\ temp_thresh_reached \in BOOLEAN
  /\ currently_sampling = FALSE
  /\ time_last_sampled = 0
  /\ valve = [v \in ValveNames |-> "CLOSED"]
  /\ SampleUpwardsIdle
  /\ lp_reads = NoReads
  /\ ti = 1
  /\ tanks \in [Tanks -> {"UNKNOWN", "READY"}]
  /\ tank_pressure = [t \in Tanks |-> NONE]
  /\ key_pressure = [t \in Tanks |-> NONE]
  /\ ref_manifold_pressure = NONE
  /\ new_manifold_pressure = NONE
  /\ manifold_presence = NONE
  /\ ready_tanks = <<>>
  /\ last_resort_tanks = <<>>
  /\ not_ready_tanks = <<>>
  /\ assigned = [c \in Tanks |-> c]
  /\ rtc = RTCFile_init(Boot)
  /\ RTCIdle
  /\ FileIdle
  /\ VentIdle
  /\ config \in {[process |-> p, unset |-> u] :
                   p \in Processes,
                   u \in UNION {Faults(q) : q \in Processes} \cup {"none"}}
  /\ config.unset \in Faults(config.process) \cup {"none"}
  /\ run_log = {}

ConfigNext ==
  \/ CallIsReadyOfProcess
  \/ CallInitialize
  \/ StartProbe
  \/ ManifoldOffline
  \/ ProbePoll
  \/ EndProbe
  \/ PromoteNoTanks

ConfigSpec == ConfigInit /\ [][ConfigNext]_vars

\* the run() under study was called with a collaborator unset or a count mismatch
ConfigurationError == config.unset # "none"

\* C33: a configuration error aborts only the offending process: run() logs the
\* problem and returns False without actuating any valve and without changing
\* any TankState, PlumbingState or tank-to-collection assignment
C33_ConfigErrorAborts ==
  [][ ConfigurationError =>
        /\ valve' = valve
        /\ tank_valve' = tank_valve
        /\ tanks' = tanks
        /\ tank_state' = tank_state
        /\ plumbing_state' = plumbing_state
        /\ assigned' = assigned
        /\ pc' = "done" => result' = "False" /\ run_log' # {} ]_vars

\* C34: SampleUpwards moves a tank only from READY to SAMPLED or FAILED_SAMPLE, and
\* only the tank of the collection it is working on; once a tank is SAMPLED or
\* FAILED_SAMPLE no later step opens its valve or changes its state
C34_TankStateFlow ==
  [][ \A c \in Collections :
        /\ tank_state'[c] # tank_state[c] =>
             /\ tank_state[c] = "READY"
             /\ tank_state'[c] \in Terminal
             /\ c = ci
             /\ pc \in {"sample", "tsmall"}
        /\ tank_state[c] \in Terminal =>
             /\ tank_state'[c] = tank_state[c]
             /\ ~(tank_valve[c] = "CLOSED" /\ tank_valve'[c] = "OPEN") ]_vars

\* the first tank is settled, its valve closed, while the second is being sampled
C34_Witness ==
  /\ tank_state[1] \in Terminal
  /\ tank_valve[1] = "CLOSED"
  /\ ci = 2
  /\ pc = "sample"
  /\ tank_valve[2] = "OPEN"

\* the valves SampleUpwards has opened so far in this run
OpenedByRun == UNION {opened[c] : c \in Collections}

\* C35: whenever SampleUpwards.run() has returned, thermal-abort exits included,
\* every valve it opened (dynamic, static, main and the tank valves) is closed
C35_ValvesClosedOnReturn ==
  pc = "done" =>
    /\ \A v \in OpenedByRun \ {"tank"} : valve[v] = "CLOSED"
    /\ \A c \in Collections : "tank" \in opened[c] => tank_valve[c] = "CLOSED"

\* C36: once the thermal flag is set SampleUpwards opens no valve, and a run
\* started with the flag set returns False without touching a valve
C36_NoValveOpenedAfterFlag ==
  [][ temp_thresh_reached =>
        /\ \A v \in ValveNames : ~(valve[v] = "CLOSED" /\ valve'[v] = "OPEN")
        /\ \A c \in Collections : ~(tank_valve[c] = "CLOSED" /\ tank_valve'[c] = "OPEN")
        /\ pc = "start" => pc' = "done" /\ result' = "False"
                            /\ valve' = valve /\ tank_valve' = tank_valve ]_vars

\* LogPressures has not evaluated thermal safety yet: an evaluation at mission time
\* t needs t >= time_btw_temp_checks and stores t
NeverEvaluated == time_last_sampled = 0

\* the last call of LogPressures.run() evaluated thermal safety
Evaluated == "temperature" \in lp_reads.reads

\* C37: with the flag not set, a call of LogPressures.run() made when at least
\* time_btw_temp_checks ms have passed since the last thermal evaluation, or when
\* none has been made yet, evaluates thermal safety, also at negative mission time
C37_EvaluatedWhenDue ==
  [][ (now' # now /\ ~temp_thresh_reached
         /\ (NeverEvaluated \/ now >= time_last_sampled + time_btw_temp_checks))
        => Evaluated' ]_vars

\* the tanks in the list the caller gave to set_tanks (ready_tanks is that list)
InCallersList == {ready_tanks[i] : i \in 1..Len(ready_tanks)}

\* C38: SwapTanks.run() changes no tank's TankState, and when it has returned the
\* caller's tank list still contains the same tanks
C38_OnlyAssociationsChange ==
  [][ /\ tanks' = tanks
      /\ pc' = "done" => InCallersList' = Tanks ]_vars

\* the diagnosis of this step read the manifold and got the sentinel, the
\* reference reading taken after the bleed having been a pressure
ManifoldLost ==
  /\ pc = "sample"
  /\ pre_sample_manifold_pressure # SENTINEL
  /\ post_sample_manifold_pressure' = SENTINEL

\* C39: a manifold sensor lost after its reference reading makes the manifold
\* pressure change count as zero, as a lost tank reading does for the tank: the
\* diagnosis is a main line failure and the tank is not failed
C39_ManifoldSentinelNoChange ==
  [][ ManifoldLost => /\ plumbing_state' = "MAIN_LINE_FAILURE"
                      /\ tank_state' = tank_state ]_vars

====
